---- MODULE Spec2Model ----
(***************************************************************************)
(* Model of the agreement primitives of @rezilient/types:                  *)
(*   - the PIT row tuple comparator and selector (restore-contracts.ts),   *)
(*   - canonical JSON serialization and the restore plan hash              *)
(*     (restore-contracts.ts),                                             *)
(*   - the replay comparator, sort and batch validation of cross-service   *)
(*     audit events and the legacy restore-job adapter                     *)
(*     (audit-contracts).                                                  *)
(*                                                                         *)
(* Text is modelled as a sequence of code points (naturals), so that       *)
(* collation, escaping and parsing are computed rather than assumed.       *)
(* String.prototype.localeCompare is modelled as the CLDR root collation   *)
(* (the collation of the default "en-US" ICU build of the runtime) at its  *)
(* default tertiary strength.                                              *)
(***************************************************************************)
EXTENDS Integers, Sequences, FiniteSets, TLC

VARIABLES
    rows,       \* the PIT tuples handed to the comparator / selector
    pitOut,     \* outcome of the last PIT operation on rows
    input,      \* the JavaScript value handed to the canonical serializer
    jsonOut,    \* outcome of the last serializer operation on input
    prevOut,    \* outcome kept across a JSON.parse round trip
    events,     \* the audit events a caller holds, in arrival order
    auditOut,   \* outcome of the last audit replay operation on events
    legacyIn,   \* the legacy event and context handed to an adapter
    legacyOut,  \* outcome of the adapter on legacyIn
    payload,    \* the value handed to a schema for validation
    verdict,    \* outcome of the validation of payload
    calls       \* per caller, the call it made last and what it got back

pitVars == <<rows, pitOut>>
jsonVars == <<input, jsonOut, prevOut>>
auditVars == <<events, auditOut>>
legacyVars == <<legacyIn, legacyOut>>
schemaVars == <<payload, verdict>>
callVars == <<calls>>
vars == <<rows, pitOut, input, jsonOut, prevOut, events, auditOut,
          legacyIn, legacyOut, payload, verdict, calls>>

(***************************************************************************)
(* Bounds of the model.                                                    *)
(***************************************************************************)
MaxPitRows == 3
MaxJsonNodes == 4
MaxAuditEvents == 3
MaxPlanItems == 2
MaxCallers == 2

(***************************************************************************)
(* Strings.                                                                *)
(***************************************************************************)
RECURSIVE LexCompare(_, _)
\* Lexicographic comparison of two sequences of naturals: -1, 0 or 1.
LexCompare(a, b) ==
    IF a = <<>> /\ b = <<>> THEN 0
    ELSE IF a = <<>> THEN -1
    ELSE IF b = <<>> THEN 1
    ELSE IF Head(a) < Head(b) THEN -1
    ELSE IF Head(a) > Head(b) THEN 1
    ELSE LexCompare(Tail(a), Tail(b))

\* Ordinal (code unit) comparison of two strings.
OrdinalCompare(a, b) == LexCompare(a, b)

\* Canonical decomposition (NFD) of one code point: U+00E9 is U+0065 U+0301.
Decompose(c) == IF c = 233 THEN <<101, 769>> ELSE <<c>>

RECURSIVE Nfd(_)
Nfd(s) == IF s = <<>> THEN <<>> ELSE Decompose(Head(s)) \o Nfd(Tail(s))

\* Collation element <<primary, secondary, tertiary>> of a code point in the
\* CLDR root collation: controls are completely ignorable, combining marks
\* carry only a secondary weight, punctuation sorts before digits, digits
\* before letters, and a lower case letter differs from its upper case
\* letter only at the tertiary level (lower case first).
CollationElement(c) ==
    IF c < 9 \/ (c > 13 /\ c < 32) THEN <<0, 0, 0>>
    ELSE IF c = 769 THEN <<0, 2, 1>>
    ELSE IF c = 95 THEN <<10, 1, 1>>
    ELSE IF c = 45 THEN <<11, 1, 1>>
    ELSE IF c = 44 THEN <<12, 1, 1>>
    ELSE IF c = 59 THEN <<13, 1, 1>>
    ELSE IF c = 58 THEN <<14, 1, 1>>
    ELSE IF c = 33 THEN <<15, 1, 1>>
    ELSE IF c = 63 THEN <<16, 1, 1>>
    ELSE IF c = 46 THEN <<17, 1, 1>>
    ELSE IF c >= 48 /\ c <= 57 THEN <<100 + (c - 48), 1, 1>>
    ELSE IF c >= 97 /\ c <= 122 THEN <<200 + (c - 97), 1, 1>>
    ELSE IF c >= 65 /\ c <= 90 THEN <<200 + (c - 65), 1, 2>>
    ELSE <<1000 + c, 1, 1>>

RECURSIVE CollationKey(_, _)
\* The sort key of a decomposed string at one level: its non-zero weights.
CollationKey(s, level) ==
    IF s = <<>> THEN <<>>
    ELSE LET w == CollationElement(Head(s))[level]
         IN  (IF w = 0 THEN <<>> ELSE <<w>>) \o CollationKey(Tail(s), level)

\* The comparison of two decomposed strings at one level.
CompareAtLevel(x, y, level) ==
    LexCompare(CollationKey(x, level), CollationKey(y, level))

\* The first comparison unless it is a tie, else the next one.
ThenBy(first, next) == IF first # 0 THEN first ELSE next

\* The comparison of two decomposed strings: primary weights first, then
\* secondary, then tertiary.
CompareDecomposed(x, y) ==
    ThenBy(CompareAtLevel(x, y, 1),
           ThenBy(CompareAtLevel(x, y, 2), CompareAtLevel(x, y, 3)))

\* String.prototype.localeCompare(that) with no locale argument.
LocaleCompare(a, b) == CompareDecomposed(Nfd(a), Nfd(b))

(***************************************************************************)
(* PIT row tuples.                                                         *)
(*                                                                         *)
(* A ServiceNow timestamp 'YYYY-MM-DD HH:mm:ss' is the triple of its       *)
(* HH, mm and ss fields and an ISO timestamp 'YYYY-MM-DDTHH:mm:ss[.SSS]Z'  *)
(* the record of its fields, the fraction being <<>> when the text has     *)
(* second precision; the date part is the same for every timestamp.        *)
(***************************************************************************)
\* Date.parse of the time-of-day fields: NaN outside the field ranges, else
\* the milliseconds since the start of the day.
DateParse(hh, mm, ss, ms) ==
    IF hh > 23 \/ mm > 59 \/ ss > 59
    THEN [finite |-> FALSE, ms |-> 0]
    ELSE [finite |-> TRUE, ms |-> ((hh * 60 + mm) * 60 + ss) * 1000 + ms]

AsServiceNowUtcMillis(value) == DateParse(value[1], value[2], value[3], 0)

AsIsoUtcMillis(value) ==
    DateParse(value.hh, value.mm, value.ss,
              IF value.frac = <<>> THEN 0 ELSE value.frac[1])

CompareNumbers(left, right) ==
    IF left < right THEN -1 ELSE IF left > right THEN 1 ELSE 0

Returned(n) == [threw |-> FALSE, value |-> n]
Thrown == [threw |-> TRUE, value |-> 0]

\* Whether both tuples carry sys_mod_count, so that the count step applies.
NeverCarryModCount(left, right) == FALSE
BothCarryModCount(left, right) ==
    left.sys_mod_count # <<>> /\ right.sys_mod_count # <<>>

ComparePitRowTuple(left, right) ==
    LET lu == AsServiceNowUtcMillis(left.sys_updated_on)
        ru == AsServiceNowUtcMillis(right.sys_updated_on)
        lt == AsIsoUtcMillis(left.time)
        rt == AsIsoUtcMillis(right.time)
    IN  IF ~lu.finite \/ ~ru.finite THEN Thrown
        ELSE IF CompareNumbers(lu.ms, ru.ms) # 0
             THEN Returned(CompareNumbers(lu.ms, ru.ms))
        ELSE IF BothCarryModCount(left, right)
                /\ CompareNumbers(left.sys_mod_count[1],
                                  right.sys_mod_count[1]) # 0
             THEN Returned(CompareNumbers(left.sys_mod_count[1],
                                          right.sys_mod_count[1]))
        ELSE IF ~lt.finite \/ ~rt.finite THEN Thrown
        ELSE IF CompareNumbers(lt.ms, rt.ms) # 0
             THEN Returned(CompareNumbers(lt.ms, rt.ms))
        ELSE Returned(LocaleCompare(left.event_id, right.event_id))

\* The test of the scan: the candidate replaces the incumbent winner.
ReplacesWinnerOnTie(c) == c.value >= 0
ReplacesWinner(c) == c.value > 0

RECURSIVE ScanWinner(_, _, _)
\* The loop of selectLatestPitRowTuple from position index on; winner is the
\* position of the incumbent. The result is the position of the tuple the
\* loop returns, or 0 when a comparison throws.
ScanWinner(rs, index, winner) ==
    IF index > Len(rs) THEN winner
    ELSE LET c == ComparePitRowTuple(rs[index], rs[winner])
         IN  IF c.threw THEN 0
             ELSE ScanWinner(rs, index + 1,
                             IF ReplacesWinner(c) THEN index ELSE winner)

\* selectLatestPitRowTuple: the position in rs of the tuple it returns.
SelectLatestPitRowTuple(rs) ==
    IF Len(rs) = 0 THEN [threw |-> TRUE, index |-> 0]
    ELSE LET w == ScanWinner(rs, 2, 1)
         IN  [threw |-> w = 0, index |-> w]

\* Inputs of the PIT operations.
\* The last one, '... 99:00:00', matches the pattern of the schema and is
\* no time of day.
SysUpdatedOnValues == {<<12, 0, 0>>, <<12, 0, 1>>, <<99, 0, 0>>}
SysModCountValues == {<<>>, <<1>>, <<2>>}
TimeValues ==
    {[hh |-> 12, mm |-> 0, ss |-> 0, frac |-> f] : f \in {<<>>, <<100>>}}
\* 'a', 'b', 'B'
EventIdValues == {<<97>>, <<98>>, <<66>>}

PitTuples ==
    {t \in [sys_updated_on : SysUpdatedOnValues,
            sys_mod_count : SysModCountValues,
            time : TimeValues,
            event_id : EventIdValues] :
        t.sys_updated_on = <<12, 0, 0>>
        \/ (t.sys_mod_count = <<>> /\ t.time.frac = <<>>
            /\ t.event_id = <<97>>)}

PitIdle == [op |-> "idle", threw |-> FALSE, index |-> 0, matrix |-> <<>>]

PitInit ==
    /\ rows = <<>>
    /\ pitOut = PitIdle
    /\ input = <<>>
    /\ jsonOut = <<>>
    /\ prevOut = <<>>
    /\ events = <<>>
    /\ auditOut = <<>>
    /\ legacyIn = <<>>
    /\ legacyOut = <<>>
    /\ payload = <<>>
    /\ verdict = <<>>
    /\ calls = <<>>

\* A caller observes one more row version.
PitAppend ==
    /\ Len(rows) < MaxPitRows
    /\ \E t \in PitTuples : rows' = Append(rows, t)
    /\ pitOut' = PitIdle
    /\ UNCHANGED <<jsonVars, auditVars, legacyVars, schemaVars, callVars>>

\* A caller runs selectLatestPitRowTuple(rows).
PitSelect ==
    /\ pitOut.op = "idle"
    /\ LET r == SelectLatestPitRowTuple(rows)
       IN  pitOut' = [op |-> "select", threw |-> r.threw, index |-> r.index,
                      matrix |-> <<>>]
    /\ UNCHANGED <<rows, jsonVars, auditVars, legacyVars,
                   schemaVars, callVars>>

\* A caller runs comparePitRowTuple on every ordered pair of rows.
PitCompare ==
    /\ pitOut.op = "idle"
    /\ Len(rows) > 0
    /\ pitOut' = [op |-> "compare", threw |-> FALSE, index |-> 0,
                  matrix |-> [i \in 1..Len(rows) |->
                                 [j \in 1..Len(rows) |->
                                     ComparePitRowTuple(rows[i], rows[j])]]]
    /\ UNCHANGED <<rows, jsonVars, auditVars, legacyVars,
                   schemaVars, callVars>>

PitNext == PitAppend \/ PitSelect \/ PitCompare

SpecPit == PitInit /\ [][PitNext]_vars

(***************************************************************************)
(* JavaScript values.                                                      *)
(*                                                                         *)
(* A value is a record: t is its kind, n its number (1/0 for a boolean),   *)
(* s its text (the bytes of a binary buffer), keys the property names of   *)
(* a plain object in insertion order and kids the elements of an array or  *)
(* the property values of a plain object, aligned with keys.               *)
(***************************************************************************)
Val(t, n, s, keys, kids) ==
    [t |-> t, n |-> n, s |-> s, keys |-> keys, kids |-> kids]

JsNull == Val("null", 0, <<>>, <<>>, <<>>)
JsUndefined == Val("undefined", 0, <<>>, <<>>, <<>>)
JsBoolean(b) == Val("boolean", IF b THEN 1 ELSE 0, <<>>, <<>>, <<>>)
JsNumber(n) == Val("number", n, <<>>, <<>>, <<>>)
JsNaN == Val("nan", 0, <<>>, <<>>, <<>>)
JsString(s) == Val("string", 0, s, <<>>, <<>>)
JsArray(kids) == Val("array", 0, <<>>, <<>>, kids)
JsObject(keys, kids) == Val("object", 0, <<>>, keys, kids)
JsFunction == Val("function", 0, <<>>, <<>>, <<>>)
JsBigInt(n) == Val("bigint", n, <<>>, <<>>, <<>>)
JsSymbol == Val("symbol", 0, <<>>, <<>>, <<>>)
JsDate == Val("date", 0, <<>>, <<>>, <<>>)
JsBuffer(bytes) == Val("buffer", 0, bytes, <<>>, <<>>)

\* The typeof operator.
TypeOf(v) ==
    IF v.t \in {"null", "array", "object", "date", "buffer"} THEN "object"
    ELSE IF v.t = "nan" THEN "number"
    ELSE v.t

\* Array.isArray.
IsArray(v) == v.t = "array"

RECURSIVE DigitsOf(_)
\* The decimal digits of a natural number.
DigitsOf(n) ==
    IF n < 10 THEN <<48 + n>> ELSE DigitsOf(n \div 10) \o <<48 + (n % 10)>>

\* Number::toString of an integer.
NumberToString(n) == IF n < 0 THEN <<45>> \o DigitsOf(-n) ELSE DigitsOf(n)

IsDigit(c) == c >= 48 /\ c <= 57

RECURSIVE DigitsValue(_)
DigitsValue(s) ==
    IF s = <<>> THEN 0
    ELSE DigitsValue(SubSeq(s, 1, Len(s) - 1)) * 10 + (s[Len(s)] - 48)

\* A property name that is an array index: the canonical text of a natural.
IsArrayIndex(key) ==
    /\ key # <<>>
    /\ Len(key) <= 9
    /\ \A i \in 1..Len(key) : IsDigit(key[i])
    /\ (key[1] = 48 => Len(key) = 1)

RECURSIVE InsertInOrder(_, _, _)
\* The positions sorted so far with position k placed after those that do
\* not compare greater.
InsertInOrder(sorted, k, compare) ==
    IF sorted = <<>> THEN <<k>>
    ELSE IF compare[sorted[Len(sorted)]][k] <= 0 THEN Append(sorted, k)
    ELSE Append(InsertInOrder(SubSeq(sorted, 1, Len(sorted) - 1), k, compare),
                sorted[Len(sorted)])

RECURSIVE SortFirst(_, _)
\* The first k positions in sorted order.
SortFirst(k, compare) ==
    IF k = 0 THEN <<>> ELSE InsertInOrder(SortFirst(k - 1, compare), k, compare)

\* Array.prototype.sort: a stable sort of s, compare[i][j] being what the
\* comparator returns for s[i] and s[j].
StableSort(s, compare) ==
    LET order == SortFirst(Len(s), compare)
    IN  [r \in 1..Len(s) |-> s[order[r]]]

CompareIndexEntries(left, right) ==
    CompareNumbers(DigitsValue(left[1]), DigitsValue(right[1]))

\* The order in which the own properties of an ordinary object are
\* enumerated: array indices in ascending numeric order, then the other
\* names in insertion order. entries is the sequence of <<name, value>>
\* pairs in insertion order.
OwnPropertyOrder(entries) ==
    LET isIndex(e) == IsArrayIndex(e[1])
        isName(e) == ~IsArrayIndex(e[1])
        indices == SelectSeq(entries, isIndex)
    IN  StableSort(indices,
                   [i \in 1..Len(indices) |-> [j \in 1..Len(indices) |->
                       CompareIndexEntries(indices[i], indices[j])]])
            \o SelectSeq(entries, isName)

\* Object.entries of a value whose typeof is 'object' and that is no array.
ObjectEntries(v) ==
    IF v.t = "object"
    THEN OwnPropertyOrder([i \in 1..Len(v.keys) |-> <<v.keys[i], v.kids[i]>>])
    ELSE IF v.t = "buffer"
    THEN [i \in 1..Len(v.s) |-> <<NumberToString(i - 1), JsNumber(v.s[i])>>]
    ELSE <<>>

(***************************************************************************)
(* Canonical JSON.                                                         *)
(***************************************************************************)
\* The filter of the entries: ([, v]) => v !== undefined.
KeepEntryTruthy(v) ==
    /\ v.t \notin {"undefined", "null", "nan"}
    /\ (v.t \in {"number", "boolean", "bigint"} => v.n # 0)
    /\ (v.t = "string" => v.s # <<>>)
KeepEntry(v) == v.t # "undefined"

\* The comparator of the entries: left[0].localeCompare(right[0]).
CompareEntryKeysUnsorted(left, right) == 0
CompareEntryKeys(left, right) == LocaleCompare(left[1], right[1])

\* entries.sort((left, right) => left[0].localeCompare(right[0])).
SortEntries(entries) ==
    StableSort(entries,
               [i \in 1..Len(entries) |-> [j \in 1..Len(entries) |->
                   CompareEntryKeys(entries[i], entries[j])]])

\* The property name __proto__.
ProtoName == <<95, 95, 112, 114, 111, 116, 111, 95, 95>>

\* out[key] = ... on the object literal out: the assignment defines an own
\* property, except for the name __proto__, which reaches the accessor
\* inherited from Object.prototype and defines none.
DefinesOwnProperty(key) == key # ProtoName

Canonical(v) == [threw |-> FALSE, value |-> v]
Unsupported == [threw |-> TRUE, value |-> JsUndefined]

RECURSIVE ToCanonicalJson(_)
ToCanonicalJson(value) ==
    IF value.t = "null" \/ TypeOf(value) \in {"boolean", "number", "string"}
    THEN Canonical(value)
    ELSE IF IsArray(value)
    THEN LET cs == [i \in 1..Len(value.kids) |-> ToCanonicalJson(value.kids[i])]
         IN  IF \E i \in 1..Len(cs) : cs[i].threw THEN Unsupported
             ELSE Canonical(JsArray([i \in 1..Len(cs) |-> cs[i].value]))
    ELSE IF TypeOf(value) = "object"
    THEN LET keep(e) == KeepEntry(e[2])
             entries == SortEntries(SelectSeq(ObjectEntries(value), keep))
             cs == [i \in 1..Len(entries) |-> ToCanonicalJson(entries[i][2])]
             defines(i) == DefinesOwnProperty(entries[i][1])
             own == SelectSeq([i \in 1..Len(entries) |-> i], defines)
         IN  IF \E i \in 1..Len(cs) : cs[i].threw THEN Unsupported
             ELSE Canonical(JsObject([j \in 1..Len(own) |-> entries[own[j]][1]],
                                     [j \in 1..Len(own) |-> cs[own[j]].value]))
    ELSE Unsupported

\* The hexadecimal digit (lower case) of a value below 16.
HexDigit(d) == IF d < 10 THEN 48 + d ELSE 87 + d

\* QuoteJSONString on one code point.
JsonQuoteCharRaw(c) == <<c>>
JsonQuoteChar(c) ==
    IF c = 34 THEN <<92, 34>>
    ELSE IF c = 92 THEN <<92, 92>>
    ELSE IF c = 8 THEN <<92, 98>>
    ELSE IF c = 9 THEN <<92, 116>>
    ELSE IF c = 10 THEN <<92, 110>>
    ELSE IF c = 12 THEN <<92, 102>>
    ELSE IF c = 13 THEN <<92, 114>>
    ELSE IF c < 32 THEN <<92, 117, 48, 48, HexDigit(c \div 16), HexDigit(c % 16)>>
    ELSE <<c>>

RECURSIVE JsonQuoteBody(_)
JsonQuoteBody(s) ==
    IF s = <<>> THEN <<>> ELSE JsonQuoteChar(Head(s)) \o JsonQuoteBody(Tail(s))

JsonQuote(s) == <<34>> \o JsonQuoteBody(s) \o <<34>>

RECURSIVE JoinWithComma(_)
JoinWithComma(texts) ==
    IF texts = <<>> THEN <<>>
    ELSE IF Len(texts) = 1 THEN texts[1]
    ELSE texts[1] \o <<44>> \o JoinWithComma(Tail(texts))

RECURSIVE JsonStringify(_)
\* JSON.stringify of a value toCanonicalJson returned.
JsonStringify(c) ==
    IF c.t = "null" \/ c.t = "nan" THEN <<110, 117, 108, 108>>
    ELSE IF c.t = "boolean"
    THEN (IF c.n = 1 THEN <<116, 114, 117, 101>> ELSE <<102, 97, 108, 115, 101>>)
    ELSE IF c.t = "number" THEN NumberToString(c.n)
    ELSE IF c.t = "string" THEN JsonQuote(c.s)
    ELSE IF c.t = "array"
    THEN <<91>> \o JoinWithComma([i \in 1..Len(c.kids) |-> JsonStringify(c.kids[i])])
              \o <<93>>
    ELSE LET es == ObjectEntries(c)
         IN  <<123>> \o JoinWithComma([i \in 1..Len(es) |->
                            JsonQuote(es[i][1]) \o <<58>> \o JsonStringify(es[i][2])])
                   \o <<125>>

CanonicalJsonStringify(value) ==
    LET c == ToCanonicalJson(value)
    IN  IF c.threw THEN [threw |-> TRUE, text |-> <<>>]
        ELSE [threw |-> FALSE, text |-> JsonStringify(c.value)]

\* The SHA-256 digest of a text, as an ideal hash: the digest stands for
\* the text it was computed from, so that two digests are equal exactly
\* when the texts are.
Sha256Hex(text) == [digest_of |-> text]

ComputeRestorePlanHash(value) ==
    LET canonicalJson == CanonicalJsonStringify(value)
    IN  IF canonicalJson.threw
        THEN [threw |-> TRUE, canonical_json |-> <<>>, plan_hash |-> Sha256Hex(<<>>)]
        ELSE [threw |-> FALSE, canonical_json |-> canonicalJson.text,
              plan_hash |-> Sha256Hex(canonicalJson.text)]

(***************************************************************************)
(* JSON.parse, for the texts JSON.stringify writes (no white space, no     *)
(* fractions or exponents). A text it cannot read is a SyntaxError.        *)
(***************************************************************************)
SyntaxError == [ok |-> FALSE, v |-> JsUndefined, next |-> 0]
Parsed(v, next) == [ok |-> TRUE, v |-> v, next |-> next]

\* The code point at position i of a text, 0 past its end.
At(t, i) == IF i >= 1 /\ i <= Len(t) THEN t[i] ELSE 0

StartsWith(t, i, word) == \A k \in 1..Len(word) : At(t, i + k - 1) = word[k]

HexValue(c) ==
    IF c >= 48 /\ c <= 57 THEN c - 48
    ELSE IF c >= 97 /\ c <= 102 THEN c - 87
    ELSE IF c >= 65 /\ c <= 70 THEN c - 55
    ELSE -1

\* The character a one-letter escape stands for, 0 when there is none.
SimpleEscape(e) ==
    IF e = 34 \/ e = 92 \/ e = 47 THEN e
    ELSE IF e = 98 THEN 8
    ELSE IF e = 116 THEN 9
    ELSE IF e = 110 THEN 10
    ELSE IF e = 102 THEN 12
    ELSE IF e = 114 THEN 13
    ELSE 0

RECURSIVE ParseStringBody(_, _, _)
\* The string whose opening quote precedes position i; acc is what was read.
ParseStringBody(t, i, acc) ==
    LET c == At(t, i)
        e == At(t, i + 1)
        h == [k \in 1..4 |-> HexValue(At(t, i + 1 + k))]
    IN  IF c = 34 THEN [ok |-> TRUE, s |-> acc, next |-> i + 1]
        ELSE IF c < 32 THEN [ok |-> FALSE, s |-> <<>>, next |-> 0]
        ELSE IF c # 92 THEN ParseStringBody(t, i + 1, Append(acc, c))
        ELSE IF SimpleEscape(e) # 0
             THEN ParseStringBody(t, i + 2, Append(acc, SimpleEscape(e)))
        ELSE IF e = 117 /\ \A k \in 1..4 : h[k] >= 0
             THEN ParseStringBody(t, i + 6,
                     Append(acc, ((h[1] * 16 + h[2]) * 16 + h[3]) * 16 + h[4]))
        ELSE [ok |-> FALSE, s |-> <<>>, next |-> 0]

RECURSIVE DigitsEnd(_, _)
\* The position after the run of digits that starts at position i.
DigitsEnd(t, i) == IF IsDigit(At(t, i)) THEN DigitsEnd(t, i + 1) ELSE i

ParseNumber(t, i) ==
    LET start == IF At(t, i) = 45 THEN i + 1 ELSE i
        end == DigitsEnd(t, start)
        n == DigitsValue(SubSeq(t, start, end - 1))
    IN  IF end = start \/ (At(t, start) = 48 /\ end > start + 1) THEN SyntaxError
        ELSE Parsed(JsNumber(IF start > i THEN -n ELSE n), end)

\* The object with one more member read, a repeated name keeping its place
\* and taking the later value.
WithMember(keys, kids, key, kid) ==
    IF \E j \in 1..Len(keys) : keys[j] = key
    THEN <<keys, [j \in 1..Len(keys) |-> IF keys[j] = key THEN kid ELSE kids[j]]>>
    ELSE <<Append(keys, key), Append(kids, kid)>>

RECURSIVE ParseValue(_, _)
RECURSIVE ParseElements(_, _, _)
RECURSIVE ParseMembers(_, _, _, _)

ParseValue(t, i) ==
    LET c == At(t, i)
    IN  IF StartsWith(t, i, <<110, 117, 108, 108>>) THEN Parsed(JsNull, i + 4)
        ELSE IF StartsWith(t, i, <<116, 114, 117, 101>>)
             THEN Parsed(JsBoolean(TRUE), i + 4)
        ELSE IF StartsWith(t, i, <<102, 97, 108, 115, 101>>)
             THEN Parsed(JsBoolean(FALSE), i + 5)
        ELSE IF c = 34
             THEN LET str == ParseStringBody(t, i + 1, <<>>)
                  IN  IF str.ok THEN Parsed(JsString(str.s), str.next)
                      ELSE SyntaxError
        ELSE IF c = 91
             THEN IF At(t, i + 1) = 93 THEN Parsed(JsArray(<<>>), i + 2)
                  ELSE ParseElements(t, i + 1, <<>>)
        ELSE IF c = 123
             THEN IF At(t, i + 1) = 125 THEN Parsed(JsObject(<<>>, <<>>), i + 2)
                  ELSE ParseMembers(t, i + 1, <<>>, <<>>)
        ELSE IF c = 45 \/ IsDigit(c) THEN ParseNumber(t, i)
        ELSE SyntaxError

ParseElements(t, i, acc) ==
    LET e == ParseValue(t, i)
    IN  IF ~e.ok THEN SyntaxError
        ELSE IF At(t, e.next) = 44
             THEN ParseElements(t, e.next + 1, Append(acc, e.v))
        ELSE IF At(t, e.next) = 93
             THEN Parsed(JsArray(Append(acc, e.v)), e.next + 1)
        ELSE SyntaxError

ParseMembers(t, i, keys, kids) ==
    LET k == ParseStringBody(t, i + 1, <<>>)
        e == ParseValue(t, k.next + 1)
        m == WithMember(keys, kids, k.s, e.v)
    IN  IF At(t, i) # 34 \/ ~k.ok \/ At(t, k.next) # 58 THEN SyntaxError
        ELSE IF ~e.ok THEN SyntaxError
        ELSE IF At(t, e.next) = 44 THEN ParseMembers(t, e.next + 1, m[1], m[2])
        ELSE IF At(t, e.next) = 125
             THEN Parsed(JsObject(m[1], m[2]), e.next + 1)
        ELSE SyntaxError

JsonParse(t) ==
    LET r == ParseValue(t, 1)
    IN  IF r.ok /\ r.next = Len(t) + 1 THEN r ELSE SyntaxError

(***************************************************************************)
(* Callers of the serializer: a caller builds a value, serializes or       *)
(* hashes it, and may parse the canonical text back and hash it again.     *)
(***************************************************************************)
RECURSIVE NodeCount(_)
NodeCount(v) ==
    IF v.kids = <<>> THEN 1
    ELSE LET RECURSIVE sum(_)
             sum(i) == IF i = 0 THEN 0 ELSE NodeCount(v.kids[i]) + sum(i - 1)
         IN  1 + sum(Len(v.kids))

\* Values a caller starts from: every kind of value, supported or not.
\* The strings are 'x' and '"'.
TopLeaves ==
    {JsNull, JsBoolean(TRUE), JsNumber(1), JsNumber(12), JsNaN,
     JsString(<<120>>), JsString(<<34>>), JsUndefined, JsFunction,
     JsBigInt(1), JsSymbol, JsDate, JsBuffer(<<7>>),
     JsArray(<<>>), JsObject(<<>>, <<>>)}

\* Values a caller adds to an array or to a map.
InnerLeaves == {JsNull, JsNumber(2), JsUndefined}

\* Property names: 'b', 'B', '2', '10', '__proto__'.
KeyValues == {<<98>>, <<66>>, <<50>>, <<49, 48>>, ProtoName}

\* The property name under which a caller nests a value: 'b'.
NestKey == <<98>>

JsonIdle ==
    [op |-> "idle", threw |-> FALSE, canonical_json |-> <<>>,
     plan_hash |-> Sha256Hex(<<>>)]

JsonInit ==
    /\ input \in TopLeaves
    /\ jsonOut = JsonIdle
    /\ prevOut = JsonIdle
    /\ rows = <<>>
    /\ pitOut = PitIdle
    /\ events = <<>>
    /\ auditOut = <<>>
    /\ legacyIn = <<>>
    /\ legacyOut = <<>>
    /\ payload = <<>>
    /\ verdict = <<>>
    /\ calls = <<>>

Building == jsonOut.op = "idle" /\ NodeCount(input) < MaxJsonNodes

WrapInArray ==
    /\ Building
    /\ input' = JsArray(<<input>>)
    /\ UNCHANGED <<jsonOut, prevOut, pitVars, auditVars, legacyVars,
                   schemaVars, callVars>>

WrapInObject ==
    /\ Building
    /\ input' = JsObject(<<NestKey>>, <<input>>)
    /\ UNCHANGED <<jsonOut, prevOut, pitVars, auditVars, legacyVars,
                   schemaVars, callVars>>

PushElement ==
    /\ Building
    /\ input.t = "array"
    /\ \E v \in InnerLeaves : input' = JsArray(Append(input.kids, v))
    /\ UNCHANGED <<jsonOut, prevOut, pitVars, auditVars, legacyVars,
                   schemaVars, callVars>>

PutEntry ==
    /\ Building
    /\ input.t = "object"
    /\ \E k \in KeyValues, v \in InnerLeaves :
          /\ \A i \in 1..Len(input.keys) : input.keys[i] # k
          /\ input' = JsObject(Append(input.keys, k), Append(input.kids, v))
    /\ UNCHANGED <<jsonOut, prevOut, pitVars, auditVars, legacyVars,
                   schemaVars, callVars>>

\* A caller runs canonicalJsonStringify(input).
Stringify ==
    /\ jsonOut.op = "idle"
    /\ LET r == CanonicalJsonStringify(input)
       IN  jsonOut' = [op |-> "stringify", threw |-> r.threw,
                       canonical_json |-> r.text, plan_hash |-> Sha256Hex(<<>>)]
    /\ UNCHANGED <<input, prevOut, pitVars, auditVars, legacyVars,
                   schemaVars, callVars>>

\* A caller runs computeRestorePlanHash(input).
Hash ==
    /\ jsonOut.op \in {"idle", "parse"}
    /\ LET r == ComputeRestorePlanHash(input)
       IN  jsonOut' = [op |-> "hash", threw |-> r.threw,
                       canonical_json |-> r.canonical_json,
                       plan_hash |-> r.plan_hash]
    /\ UNCHANGED <<input, prevOut, pitVars, auditVars, legacyVars,
                   schemaVars, callVars>>

\* A caller parses the canonical_json of the hash it holds, keeps the hash
\* for comparison and takes the parsed value as its next input.
Reparse ==
    /\ jsonOut.op = "hash"
    /\ ~jsonOut.threw
    /\ prevOut.op = "idle"
    /\ LET p == JsonParse(jsonOut.canonical_json)
       IN  /\ input' = p.v
           /\ jsonOut' = [op |-> "parse", threw |-> ~p.ok,
                          canonical_json |-> <<>>, plan_hash |-> Sha256Hex(<<>>)]
    /\ prevOut' = jsonOut
    /\ UNCHANGED <<pitVars, auditVars, legacyVars, schemaVars, callVars>>

JsonNext ==
    \/ WrapInArray
    \/ WrapInObject
    \/ PushElement
    \/ PutEntry
    \/ Stringify
    \/ Hash
    \/ Reparse

SpecJson == JsonInit /\ [][JsonNext]_vars

(***************************************************************************)
(* Cross-service audit events.                                             *)
(*                                                                         *)
(* An event is the record of the three fields the replay order reads:      *)
(* occurred_at (an ISO timestamp, as above), service and event_id (texts). *)
(* Every other field of the schema is the same for every event.            *)
(***************************************************************************)
\* A number below 100 as two decimal digits.
TwoDigits(n) == <<48 + (n \div 10), 48 + (n % 10)>>

\* A number below 1000 as three decimal digits.
ThreeDigits(n) == <<48 + (n \div 100), 48 + ((n \div 10) % 10), 48 + (n % 10)>>

\* The text of an ISO timestamp, '2026-01-01THH:mm:ss[.SSS]Z'.
IsoText(t) ==
    <<50, 48, 50, 54, 45, 48, 49, 45, 48, 49, 84>>
        \o TwoDigits(t.hh) \o <<58>> \o TwoDigits(t.mm) \o <<58>>
        \o TwoDigits(t.ss)
        \o (IF t.frac = <<>> THEN <<>> ELSE <<46>> \o ThreeDigits(t.frac[1]))
        \o <<90>>

CompareCrossServiceAuditEventsForReplay(left, right) ==
    ThenBy(LocaleCompare(IsoText(left.occurred_at), IsoText(right.occurred_at)),
           ThenBy(LocaleCompare(left.service, right.service),
                  LocaleCompare(left.event_id, right.event_id)))

\* events.sort((left, right) => compareCrossServiceAuditEventsForReplay(...)).
SortByReplayOrder(items) ==
    StableSort(items,
               [i \in 1..Len(items) |-> [j \in 1..Len(items) |->
                   CompareCrossServiceAuditEventsForReplay(items[i], items[j])]])

\* Arrays are objects: heap is the sequence of the arrays that exist, an
\* array being referred to by its position in heap. An operation on arrays
\* returns the heap after it and the array it returns.
\* Array.prototype.slice(): a new array with the same elements.
ArraySliceNone(heap, ref) == [heap |-> heap, ref |-> ref]
ArraySlice(heap, ref) ==
    [heap |-> Append(heap, heap[ref]), ref |-> Len(heap) + 1]

\* Array.prototype.sort(comparator) with the replay comparator: sorts the
\* array in place and returns it.
ArraySortFirst(heap, ref) ==
    [heap |-> [heap EXCEPT ![1] = SortByReplayOrder(heap[1])], ref |-> ref]
ArraySort(heap, ref) ==
    [heap |-> [heap EXCEPT ![ref] = SortByReplayOrder(heap[ref])], ref |-> ref]

SortCrossServiceAuditEventsForReplay(heap, ref) ==
    LET copy == ArraySlice(heap, ref)
    IN  ArraySort(copy.heap, copy.ref)

\* `${event.service}:${event.event_id}`
IdentityByEventId(event) == event.event_id
Identity(event) == event.service \o <<58>> \o event.event_id

\* The test of the previous event against the current one.
IsOutOfOrderNever(c) == c > 1
IsOutOfOrder(c) == c > 0

\* The issues the CrossServiceAuditReplay schema raises on a payload whose
\* events are evs, every event being accepted by CrossServiceAuditEvent and
\* the other fields of the payload being valid. index is the position of
\* the event the issue is raised at, counted from 1.
ReplayIssues(evs) ==
    (IF Len(evs) = 0 THEN {[message |-> "too_small", index |-> 0]} ELSE {})
    \cup {[message |-> "unique", index |-> i] :
            i \in {k \in 1..Len(evs) :
                     \E seen \in 1..(k - 1) : Identity(evs[seen]) = Identity(evs[k])}}
    \cup {[message |-> "sorted", index |-> i] :
            i \in {k \in 2..Len(evs) :
                     IsOutOfOrder(CompareCrossServiceAuditEventsForReplay(
                                      evs[k - 1], evs[k]))}}

\* Inputs of the audit operations. The timestamps are '...T12:00:00Z',
\* '...T12:00:00.000Z' and '...T12:00:00.500Z', all three accepted by
\* isoDateTime; the services 'acp' and 'rrs'; the event ids U+00E9,
\* U+0065 U+0301 and 'B'.
OccurredAtValues ==
    {[hh |-> 12, mm |-> 0, ss |-> 0, frac |-> f] : f \in {<<>>, <<0>>, <<500>>}}
ServiceValues == {<<97, 99, 112>>, <<114, 114, 115>>}
AuditEventIdValues == {<<233>>, <<101, 769>>, <<66>>}

AuditEvents ==
    {e \in [occurred_at : OccurredAtValues,
            service : ServiceValues,
            event_id : AuditEventIdValues] :
        e.occurred_at.frac = <<>>
        \/ (e.service = <<97, 99, 112>> /\ e.event_id = <<66>>)}

AuditIdle ==
    [op |-> "idle", matrix |-> <<>>, issues |-> {}, given |-> <<>>,
     result |-> <<>>, fresh |-> FALSE]

AuditInit ==
    /\ events = <<>>
    /\ auditOut = AuditIdle
    /\ rows = <<>>
    /\ pitOut = <<>>
    /\ input = <<>>
    /\ jsonOut = <<>>
    /\ prevOut = <<>>
    /\ legacyIn = <<>>
    /\ legacyOut = <<>>
    /\ payload = <<>>
    /\ verdict = <<>>
    /\ calls = <<>>

\* A service flushes one more event to the caller.
AuditAppend ==
    /\ Len(events) < MaxAuditEvents
    /\ \E e \in AuditEvents : events' = Append(events, e)
    /\ auditOut' = AuditIdle
    /\ UNCHANGED <<pitVars, jsonVars, legacyVars, schemaVars, callVars>>

\* A caller runs compareCrossServiceAuditEventsForReplay on every ordered
\* pair of its events.
AuditCompare ==
    /\ auditOut.op = "idle"
    /\ Len(events) > 0
    /\ auditOut' = [AuditIdle EXCEPT
                       !.op = "compare",
                       !.matrix = [i \in 1..Len(events) |->
                                      [j \in 1..Len(events) |->
                                          CompareCrossServiceAuditEventsForReplay(
                                              events[i], events[j])]]]
    /\ UNCHANGED <<events, pitVars, jsonVars, legacyVars,
                   schemaVars, callVars>>

\* A caller validates a replay payload that holds its events.
AuditValidate ==
    /\ auditOut.op = "idle"
    /\ auditOut' = [AuditIdle EXCEPT !.op = "validate",
                                     !.issues = ReplayIssues(events)]
    /\ UNCHANGED <<events, pitVars, jsonVars, legacyVars,
                   schemaVars, callVars>>

\* A caller runs sortCrossServiceAuditEventsForReplay on its array of
\* events, the only array that exists before the call.
AuditSort ==
    /\ auditOut.op = "idle"
    /\ LET r == SortCrossServiceAuditEventsForReplay(<<events>>, 1)
       IN  /\ events' = r.heap[1]
           /\ auditOut' = [AuditIdle EXCEPT !.op = "sort",
                                            !.given = events,
                                            !.result = r.heap[r.ref],
                                            !.fresh = (r.ref # 1)]
    /\ UNCHANGED <<pitVars, jsonVars, legacyVars, schemaVars, callVars>>

AuditNext == AuditAppend \/ AuditCompare \/ AuditValidate \/ AuditSort

SpecAudit == AuditInit /\ [][AuditNext]_vars

(***************************************************************************)
(* Legacy restore-job audit events and their conversion to cross-service   *)
(* audit events.  An optional field holds <<>> when absent and <<v>> when   *)
(* present.  The details of a legacy event are a set of entries            *)
(* [key, value] with distinct keys, the values being JavaScript values.    *)
(***************************************************************************)
LegacyRestoreEventTypes ==
    {"job_created", "job_queued", "job_started", "job_paused",
     "job_completed", "job_failed", "job_cancelled"}

\* z.string().min(1)
NonEmptyString(s) == s # ""

\* isoDateTime: the text names a time that exists.
IsIsoDateTimeUtc(t) == AsIsoUtcMillis(t).finite

IsHexChar(c) == (c >= 48 /\ c <= 57) \/ (c >= 97 /\ c <= 102) \/ (c >= 65 /\ c <= 70)

\* The pattern of the Sha256Hex schema, /^[a-f0-9]{64}$/i.
MatchesSha256Hex(text) ==
    Len(text) = 64 /\ \A i \in 1..Len(text) : IsHexChar(text[i])

\* The transform of the Sha256Hex schema.
ToLowerCase(text) ==
    [i \in 1..Len(text) |->
        IF text[i] >= 65 /\ text[i] <= 90 THEN text[i] + 32 ELSE text[i]]

\* The code points of the strings of this model that the code inspects
\* character by character.
CodePoints(s) ==
    CASE s = "job_created" -> <<106, 111, 98, 95, 99, 114, 101, 97, 116, 101, 100>>
      [] s = "queued_for_lock" -> <<113, 117, 101, 117, 101, 100, 95, 102, 111, 114, 95, 108, 111, 99, 107>>
      [] s = "resumed" -> <<114, 101, 115, 117, 109, 101, 100>>
      [] s = "started" -> <<115, 116, 97, 114, 116, 101, 100>>
      [] s = "paused" -> <<112, 97, 117, 115, 101, 100>>
      [] s = "completed" -> <<99, 111, 109, 112, 108, 101, 116, 101, 100>>
      [] s = "failed" -> <<102, 97, 105, 108, 101, 100>>
      [] s = "cancelled" -> <<99, 97, 110, 99, 101, 108, 108, 101, 100>>
      [] s = "token_denied" -> <<116, 111, 107, 101, 110, 95, 100, 101, 110, 105, 101, 100>>
      [] s = "session_started" -> <<115, 101, 115, 115, 105, 111, 110, 95, 115, 116, 97, 114, 116, 101, 100>>
      [] s = "refresh_completed" -> <<114, 101, 102, 114, 101, 115, 104, 95, 99, 111, 109, 112, 108, 101, 116, 101, 100>>
      [] s = "login" -> <<108, 111, 103, 105, 110>>
      [] s = "denied" -> <<100, 101, 110, 105, 101, 100>>
      [] s = "token_denied_retry" -> <<116, 111, 107, 101, 110, 95, 100, 101, 110, 105, 101, 100, 95, 114, 101, 116, 114, 121>>
      [] s = "Token-Denied" -> <<84, 111, 107, 101, 110, 45, 68, 101, 110, 105, 101, 100>>
      [] s = "" -> <<>>
      [] s = "alice@example.com" -> <<97, 108, 105, 99, 101, 64, 101, 120, 97, 109, 112, 108, 101, 46, 99, 111, 109>>
      [] s = "svc:alice@example.com" -> <<115, 118, 99, 58, 97, 108, 105, 99, 101, 64, 101, 120, 97, 109, 112, 108, 101, 46, 99, 111, 109>>
      [] s = "svc:ingest" -> <<115, 118, 99, 58, 105, 110, 103, 101, 115, 116>>
      [] s = "service:reg" -> <<115, 101, 114, 118, 105, 99, 101, 58, 114, 101, 103>>
      [] s = "scheduler" -> <<115, 99, 104, 101, 100, 117, 108, 101, 114>>
      [] s = "_denied" -> <<95, 100, 101, 110, 105, 101, 100>>
      [] s = "_started" -> <<95, 115, 116, 97, 114, 116, 101, 100>>
      [] s = "_completed" -> <<95, 99, 111, 109, 112, 108, 101, 116, 101, 100>>
      [] s = "@" -> <<64>>
      [] s = "svc:" -> <<115, 118, 99, 58>>
      [] s = "service:" -> <<115, 101, 114, 118, 105, 99, 101, 58>>
      [] s = "row_id" -> <<114, 111, 119, 95, 105, 100>>
      [] s = "action" -> <<97, 99, 116, 105, 111, 110>>
      [] s = "values" -> <<118, 97, 108, 117, 101, 115>>
      [] s = "rows" -> <<114, 111, 119, 115>>
      [] s = "media_candidates" -> <<109, 101, 100, 105, 97, 95, 99, 97, 110, 100, 105, 100, 97, 116, 101, 115>>
      [] s = "candidate_id" -> <<99, 97, 110, 100, 105, 100, 97, 116, 101, 95, 105, 100>>
      [] s = "diff_enc" -> <<100, 105, 102, 102, 95, 101, 110, 99>>
      [] s = "before_image_enc" -> <<98, 101, 102, 111, 114, 101, 95, 105, 109, 97, 103, 101, 95, 101, 110, 99>>
      [] s = "after_image_enc" -> <<97, 102, 116, 101, 114, 95, 105, 109, 97, 103, 101, 95, 101, 110, 99>>
      [] s = "diff_plain" -> <<100, 105, 102, 102, 95, 112, 108, 97, 105, 110>>
      [] s = "before_image_plain" -> <<98, 101, 102, 111, 114, 101, 95, 105, 109, 97, 103, 101, 95, 112, 108, 97, 105, 110>>
      [] s = "after_image_plain" -> <<97, 102, 116, 101, 114, 95, 105, 109, 97, 103, 101, 95, 112, 108, 97, 105, 110>>
      [] s = "alg" -> <<97, 108, 103>>
      [] s = "ciphertext" -> <<99, 105, 112, 104, 101, 114, 116, 101, 120, 116>>
      [] s = "update" -> <<117, 112, 100, 97, 116, 101>>
      [] s = "skip" -> <<115, 107, 105, 112>>

\* String.prototype.endsWith
EndsWith(text, suffix) ==
    /\ Len(suffix) <= Len(text)
    /\ SubSeq(text, Len(text) - Len(suffix) + 1, Len(text)) = suffix

\* String.prototype.includes
Includes(text, part) ==
    \E i \in 1..(Len(text) + 1) :
        /\ i + Len(part) - 1 <= Len(text)
        /\ SubSeq(text, i, i + Len(part) - 1) = part

IsLowerLetter(c) == c >= 97 /\ c <= 122

\* AUDIT_ACTION_REGEX, /^[a-z][a-z0-9_]*$/
MatchesActionRegex(action) ==
    LET text == CodePoints(action)
    IN  /\ Len(text) >= 1
        /\ IsLowerLetter(text[1])
        /\ \A i \in 2..Len(text) :
              IsLowerLetter(text[i]) \/ IsDigit(text[i]) \/ text[i] = 95

\* LegacyRestoreJobAuditEvent.parse succeeds.
LegacyRestoreJobAuditEventAccepts(e) ==
    /\ NonEmptyString(e.event_id)
    /\ e.event_type \in LegacyRestoreEventTypes
    /\ NonEmptyString(e.job_id)
    /\ NonEmptyString(e.reason_code)
    /\ IsIsoDateTimeUtc(e.created_at)

\* LegacyRestoreAuditContext.parse succeeds.
LegacyRestoreAuditContextAccepts(c) ==
    /\ NonEmptyString(c.tenant_id)
    /\ NonEmptyString(c.instance_id)
    /\ NonEmptyString(c.source)
    /\ c.plan_id # <<>> => NonEmptyString(c.plan_id[1])
    /\ c.plan_hash # <<>> => MatchesSha256Hex(c.plan_hash[1])
    /\ ~(c.plan_hash # <<>> /\ c.plan_id = <<>>)

\* The value LegacyRestoreAuditContext.parse returns.
ParsedLegacyRestoreAuditContext(c) ==
    [c EXCEPT !.plan_hash =
        IF c.plan_hash = <<>> THEN <<>> ELSE <<ToLowerCase(c.plan_hash[1])>>]

\* details[key], undefined when the key is absent.
DetailOf(details, key) ==
    IF \E entry \in details : entry.key = key
    THEN (CHOOSE entry \in details : entry.key = key).value
    ELSE JsUndefined

\* Whether a JavaScript value counts as true in a condition.
Truthy(v) ==
    CASE v.t = "boolean" -> v.n = 1
      [] v.t = "number" -> v.n # 0
      [] v.t = "string" -> v.s # <<>>
      [] v.t \in {"null", "undefined", "nan"} -> FALSE
      [] OTHER -> TRUE

ResumedFromPauseTruthy(details) == Truthy(DetailOf(details, "resumed_from_pause"))
\* event.details.resumed_from_pause === true
ResumedFromPause(details) ==
    DetailOf(details, "resumed_from_pause") = JsBoolean(TRUE)

Triple(lifecycle, action, outcome) ==
    [lifecycle |-> lifecycle, action |-> action, outcome |-> outcome]

MapLegacyRestoreLifecycle(event) ==
    CASE event.event_type = "job_created" ->
            Triple("plan", "job_created", "accepted")
      [] event.event_type = "job_queued" ->
            Triple("execute", "queued_for_lock", "queued")
      [] event.event_type = "job_started" ->
            IF ResumedFromPause(event.details)
            THEN Triple("resume", "resumed", "started")
            ELSE Triple("execute", "started", "started")
      [] event.event_type = "job_paused" ->
            Triple("resume", "paused", "paused")
      [] event.event_type = "job_completed" ->
            Triple("execute", "completed", "completed")
      [] event.event_type = "job_failed" ->
            Triple("execute", "failed", "failed")
      [] event.event_type = "job_cancelled" ->
            Triple("execute", "cancelled", "cancelled")

\* The issues CrossServiceAuditEvent.parse raises on a candidate event.
CrossServiceAuditEventIssues(e) ==
    (IF ~NonEmptyString(e.event_id) THEN {"event_id"} ELSE {})
    \cup (IF ~IsIsoDateTimeUtc(e.occurred_at) THEN {"occurred_at"} ELSE {})
    \cup (IF ~MatchesActionRegex(e.action)
          THEN {"action must be snake_case"} ELSE {})
    \cup (IF e.plan_hash # <<>> /\ ~MatchesSha256Hex(e.plan_hash[1])
          THEN {"plan_hash"} ELSE {})
    \cup {field \in {"tenant_id", "instance_id", "source", "plan_id", "job_id",
                     "reason_code"} :
             e[field] # <<>> /\ ~NonEmptyString(e[field][1])}
    \cup (IF e.actor # <<>>
             /\ ~(e.actor[1].type \in {"user", "service", "system"}
                  /\ NonEmptyString(e.actor[1].id))
          THEN {"actor"} ELSE {})
    \cup (IF e.instance_id # <<>> /\ e.tenant_id = <<>>
          THEN {"instance_id requires tenant_id"} ELSE {})
    \cup (IF e.source # <<>> /\ (e.tenant_id = <<>> \/ e.instance_id = <<>>)
          THEN {"source requires tenant_id and instance_id"} ELSE {})
    \cup (IF e.plan_hash # <<>> /\ e.plan_id = <<>>
          THEN {"plan_hash requires plan_id"} ELSE {})
    \cup (IF e.lifecycle = "plan" /\ e.plan_id = <<>>
          THEN {"plan lifecycle events require plan_id"} ELSE {})
    \cup (IF e.lifecycle \in {"execute", "resume", "override", "delete"}
             /\ e.job_id = <<>>
          THEN {"execute/resume/override/delete lifecycle events require job_id"}
          ELSE {})

\* The sentinel of the legacy reason codes: value === 'none'.
IsSentinelNever(code) == FALSE
IsSentinel(code) == code = "none"

\* The object fromLegacyRestoreJobAuditEvent hands to
\* CrossServiceAuditEvent.parse.
RestoreJobCandidate(parsedEvent, parsedContext, mapped) ==
    [event_id |-> parsedEvent.event_id,
     occurred_at |-> parsedEvent.created_at,
     service |-> "rrs",
     lifecycle |-> mapped.lifecycle,
     action |-> mapped.action,
     outcome |-> mapped.outcome,
     tenant_id |-> <<parsedContext.tenant_id>>,
     instance_id |-> <<parsedContext.instance_id>>,
     source |-> <<parsedContext.source>>,
     plan_id |-> parsedContext.plan_id,
     plan_hash |-> parsedContext.plan_hash,
     job_id |-> <<parsedEvent.job_id>>,
     reason_code |-> IF ~IsSentinel(parsedEvent.reason_code)
                     THEN <<parsedEvent.reason_code>> ELSE <<>>,
     actor |-> <<>>,
     metadata |-> [spread |-> {entry \in parsedEvent.details :
                                  entry.key # "legacy_event_type"},
                   legacy_event_type |-> parsedEvent.event_type]]

LegacyIdle == [op |-> "idle", threw |-> FALSE, mapped |-> <<>>, event |-> <<>>]
LegacyThrown(mapped) ==
    [op |-> "convert", threw |-> TRUE, mapped |-> mapped, event |-> <<>>]

\* fromLegacyRestoreJobAuditEvent: what it returns or that it throws, and
\* the triple mapLegacyRestoreLifecycle gave, <<>> when it was not reached.
FromLegacyRestoreJobAuditEvent(legacyEvent, context) ==
    IF ~LegacyRestoreJobAuditEventAccepts(legacyEvent) THEN LegacyThrown(<<>>)
    ELSE IF ~LegacyRestoreAuditContextAccepts(context) THEN LegacyThrown(<<>>)
    ELSE LET mapped == MapLegacyRestoreLifecycle(legacyEvent)
             candidate == RestoreJobCandidate(
                              legacyEvent,
                              ParsedLegacyRestoreAuditContext(context), mapped)
         IN  IF CrossServiceAuditEventIssues(candidate) # {}
             THEN LegacyThrown(<<mapped>>)
             ELSE [op |-> "convert", threw |-> FALSE, mapped |-> <<mapped>>,
                   event |-> <<candidate>>]

\* LegacyAuthAuditEvent.parse succeeds.
LegacyAuthAuditEventAccepts(e) ==
    /\ NonEmptyString(e.event_id)
    /\ MatchesActionRegex(e.event_type)
    /\ IsIsoDateTimeUtc(e.occurred_at)
    /\ \A field \in {"actor", "tenant_id", "instance_id", "client_id",
                     "deny_reason_code", "in_flight_reason_code"} :
          e[field] # <<>> => NonEmptyString(e[field][1])
    /\ e.service_scope # <<>> => e.service_scope[1] \in {"reg", "rrs"}

InferActorTypeServiceFirst(actor) ==
    IF StartsWith(CodePoints(actor), 1, CodePoints("svc:"))
       \/ StartsWith(CodePoints(actor), 1, CodePoints("service:"))
    THEN "service"
    ELSE IF Includes(CodePoints(actor), CodePoints("@")) THEN "user"
    ELSE "system"
InferActorType(actor) ==
    IF Includes(CodePoints(actor), CodePoints("@")) THEN "user"
    ELSE IF StartsWith(CodePoints(actor), 1, CodePoints("svc:"))
            \/ StartsWith(CodePoints(actor), 1, CodePoints("service:"))
    THEN "service"
    ELSE "system"

\* eventType.endsWith(suffix)
HasSuffixAnywhere(eventType, suffix) ==
    Includes(CodePoints(eventType), CodePoints(suffix))
HasSuffix(eventType, suffix) ==
    EndsWith(CodePoints(eventType), CodePoints(suffix))

MapLegacyAuthOutcome(eventType) ==
    IF HasSuffix(eventType, "_denied") THEN "denied"
    ELSE IF HasSuffix(eventType, "_started") THEN "started"
    ELSE IF HasSuffix(eventType, "_completed") THEN "completed"
    ELSE "accepted"

\* The reasonCode of fromLegacyAuthAuditEvent.
AuthReasonCodeInFlightFirst(parsed) ==
    IF parsed.in_flight_reason_code # <<>>
       /\ ~IsSentinel(parsed.in_flight_reason_code[1])
    THEN parsed.in_flight_reason_code
    ELSE IF parsed.deny_reason_code # <<>>
            /\ ~IsSentinel(parsed.deny_reason_code[1])
    THEN parsed.deny_reason_code
    ELSE <<>>
AuthReasonCode(parsed) ==
    IF parsed.deny_reason_code # <<>>
       /\ ~IsSentinel(parsed.deny_reason_code[1])
    THEN parsed.deny_reason_code
    ELSE IF parsed.in_flight_reason_code # <<>>
            /\ ~IsSentinel(parsed.in_flight_reason_code[1])
    THEN parsed.in_flight_reason_code
    ELSE <<>>

\* The object fromLegacyAuthAuditEvent hands to CrossServiceAuditEvent.parse.
AuthCandidate(parsed) ==
    [event_id |-> parsed.event_id,
     occurred_at |-> parsed.occurred_at,
     service |-> "acp",
     lifecycle |-> "auth",
     action |-> parsed.event_type,
     outcome |-> MapLegacyAuthOutcome(parsed.event_type),
     tenant_id |-> parsed.tenant_id,
     instance_id |-> parsed.instance_id,
     source |-> <<>>,
     plan_id |-> <<>>,
     plan_hash |-> <<>>,
     job_id |-> <<>>,
     reason_code |-> AuthReasonCode(parsed),
     actor |-> IF parsed.actor # <<>>
               THEN <<[type |-> InferActorType(parsed.actor[1]),
                       id |-> parsed.actor[1]]>>
               ELSE <<>>,
     metadata |-> [spread |-> {entry \in parsed.metadata :
                                  /\ entry.key # "legacy_event_type"
                                  /\ entry.key = "client_id"
                                        => parsed.client_id = <<>>
                                  /\ entry.key = "service_scope"
                                        => parsed.service_scope = <<>>},
                   legacy_event_type |-> parsed.event_type,
                   client_id |-> parsed.client_id,
                   service_scope |-> parsed.service_scope]]

\* fromLegacyAuthAuditEvent: what it returns or that it throws.
FromLegacyAuthAuditEvent(legacyEvent) ==
    IF ~LegacyAuthAuditEventAccepts(legacyEvent) THEN LegacyThrown(<<>>)
    ELSE LET candidate == AuthCandidate(legacyEvent)
         IN  IF CrossServiceAuditEventIssues(candidate) # {}
             THEN LegacyThrown(<<>>)
             ELSE [op |-> "convert", threw |-> FALSE, mapped |-> <<>>,
                   event |-> <<candidate>>]

\* Inputs of the conversion.
\* absent, true, false, 'true', 1, null
ResumedFromPauseValues ==
    {<<>>, <<JsBoolean(TRUE)>>, <<JsBoolean(FALSE)>>,
     <<JsString(<<116, 114, 117, 101>>)>>, <<JsNumber(1)>>, <<JsNull>>}

DetailsValues ==
    {{[key |-> "resumed_from_pause", value |-> v[1]]} :
        v \in ResumedFromPauseValues \ {<<>>}} \cup {{}}

LegacyRestoreEvents ==
    [event_id : {"evt-1"},
     event_type : LegacyRestoreEventTypes,
     job_id : {"", "job-1"},
     reason_code : {"none", "paused_token_refresh_grace_exhausted"},
     created_at : {[hh |-> 12, mm |-> 0, ss |-> 0, frac |-> <<>>]},
     details : DetailsValues]

\* absent, 64 times 'a', 64 times 'A', 'abc'
PlanHashValues ==
    {<<>>, <<[i \in 1..64 |-> 97]>>, <<[i \in 1..64 |-> 65]>>, <<<<97, 98, 99>>>>}

LegacyRestoreContexts ==
    [tenant_id : {"tenant-1"},
     instance_id : {"instance-1"},
     source : {"sn://acme-dev.service-now.com"},
     plan_id : {<<>>, <<"plan-1">>},
     plan_hash : PlanHashValues]

\* Legacy auth events.  The actor varies only where the reason codes are
\* absent, and the client and scope only on the plainest event.
AuthEventTypes ==
    {"token_denied", "session_started", "refresh_completed", "login", "denied",
     "token_denied_retry", "Token-Denied", ""}
AuthActorValues ==
    {<<>>, <<"alice@example.com">>, <<"svc:alice@example.com">>,
     <<"svc:ingest">>, <<"service:reg">>, <<"scheduler">>, <<"">>}
AuthReasonValues == {<<>>, <<"none">>, <<"denied_token_expired">>}
AuthInFlightValues == {<<>>, <<"none">>, <<"blocked_in_flight">>}

LegacyAuthEvents ==
    {e \in [event_id : {"evt-1"},
            event_type : AuthEventTypes,
            occurred_at : {[hh |-> 12, mm |-> 0, ss |-> 0, frac |-> <<>>]},
            actor : AuthActorValues,
            tenant_id : {<<>>, <<"tenant-1">>},
            instance_id : {<<>>, <<"instance-1">>},
            client_id : {<<>>, <<"client-1">>},
            service_scope : {<<>>, <<"reg">>, <<"acp">>},
            deny_reason_code : AuthReasonValues,
            in_flight_reason_code : AuthInFlightValues,
            metadata : {{}, {[key |-> "client_id", value |-> JsNull]}}] :
        /\ e.actor # <<>>
              => (e.deny_reason_code = <<>> /\ e.in_flight_reason_code = <<>>)
        /\ (e.client_id # <<>> \/ e.service_scope # <<>> \/ e.metadata # {})
              => (/\ e.event_type = "login"
                  /\ e.actor = <<>>
                  /\ e.tenant_id = <<>> /\ e.instance_id = <<>>
                  /\ e.deny_reason_code = <<>>
                  /\ e.in_flight_reason_code = <<>>)}

LegacyInputs ==
    [kind : {"restore"}, event : LegacyRestoreEvents,
     context : LegacyRestoreContexts]
    \cup [kind : {"auth"}, event : LegacyAuthEvents, context : {<<>>}]

\* The event and context a caller starts with: a job that was created under
\* a plan.
FirstLegacyInput ==
    [kind |-> "restore",
     event |-> [event_id |-> "evt-1", event_type |-> "job_created",
                job_id |-> "job-1", reason_code |-> "none",
                created_at |-> [hh |-> 12, mm |-> 0, ss |-> 0, frac |-> <<>>],
                details |-> {}],
     context |-> [tenant_id |-> "tenant-1", instance_id |-> "instance-1",
                  source |-> "sn://acme-dev.service-now.com",
                  plan_id |-> <<"plan-1">>, plan_hash |-> <<>>]]

LegacyInit ==
    /\ legacyIn = FirstLegacyInput
    /\ legacyOut = LegacyIdle
    /\ payload = <<>>
    /\ verdict = <<>>
    /\ calls = <<>>
    /\ rows = <<>>
    /\ pitOut = <<>>
    /\ input = <<>>
    /\ jsonOut = <<>>
    /\ prevOut = <<>>
    /\ events = <<>>
    /\ auditOut = <<>>

\* A caller holds another legacy event and context.
LegacyReceive ==
    /\ legacyOut.op = "convert"
    /\ legacyIn' \in LegacyInputs
    /\ legacyOut' = LegacyIdle
    /\ UNCHANGED <<pitVars, jsonVars, auditVars, schemaVars, callVars>>

\* A caller runs fromLegacyRestoreJobAuditEvent(event, context) or
\* fromLegacyAuthAuditEvent(event) on the event it holds.
LegacyConvert ==
    /\ legacyOut.op = "idle"
    /\ legacyOut' =
          IF legacyIn.kind = "restore"
          THEN FromLegacyRestoreJobAuditEvent(legacyIn.event, legacyIn.context)
          ELSE FromLegacyAuthAuditEvent(legacyIn.event)
    /\ UNCHANGED <<legacyIn, pitVars, jsonVars, auditVars,
                   schemaVars, callVars>>

LegacyNext == LegacyReceive \/ LegacyConvert

SpecLegacy == LegacyInit /\ [][LegacyNext]_vars

(***************************************************************************)
(* The input of the restore plan hash and its validation.  A payload holds *)
(* the rows and the media candidates of a RestorePlanHashInput; of a row   *)
(* it holds row_id, action and the optional values envelope, a JavaScript  *)
(* object, and of a media candidate its candidate_id.                      *)
(***************************************************************************)
\* The object with the given entries <<name, optional value>>, in the order
\* given, the absent ones left out.
ObjectOf(entries) ==
    LET present == SelectSeq(entries, LAMBDA e : e[2] # <<>>)
    IN  JsObject([i \in 1..Len(present) |-> CodePoints(present[i][1])],
                 [i \in 1..Len(present) |-> present[i][2][1]])

\* object[name], undefined when the object has no such property.
Prop(object, name) ==
    IF \E i \in 1..Len(object.keys) : object.keys[i] = CodePoints(name)
    THEN object.kids[CHOOSE i \in 1..Len(object.keys) :
                        object.keys[i] = CodePoints(name)]
    ELSE JsUndefined

\* z.string().min(1) on a JavaScript value.
IsNonEmptyJsString(v) == v.t = "string" /\ v.s # <<>>

\* EncryptedPayload.parse succeeds, as far as alg and ciphertext go.
EncryptedPayloadAccepts(v) ==
    /\ v.t = "object"
    /\ IsNonEmptyJsString(Prop(v, "alg"))
    /\ IsNonEmptyJsString(Prop(v, "ciphertext"))

EnvelopeEncKeys == {"diff_enc", "before_image_enc", "after_image_enc"}
EnvelopePlainKeys == {"diff_plain", "before_image_plain", "after_image_plain"}

\* The test of the envelope's refinement on a plaintext field, negated:
\* value === undefined.
IsUndefinedOrNull(v) == v.t \in {"undefined", "null"}
IsUndefined(v) == v.t = "undefined"

\* The issues RestoreEncryptedValueEnvelope.parse raises.
RestoreEncryptedValueEnvelopeIssues(v) ==
    IF v.t # "object" THEN {"values must be an object"}
    ELSE {"unrecognized key" : i \in {j \in 1..Len(v.keys) :
             \A name \in EnvelopeEncKeys \cup EnvelopePlainKeys :
                 v.keys[j] # CodePoints(name)}}
         \cup {name \in EnvelopeEncKeys :
                  /\ ~IsUndefined(Prop(v, name))
                  /\ ~EncryptedPayloadAccepts(Prop(v, name))}
         \cup {name \in EnvelopePlainKeys : ~IsUndefined(Prop(v, name))}

\* row.values?.diff_enc !== undefined || ... of RestorePlanHashRowInput
HasEncryptedValues(row) ==
    /\ row.values # <<>>
    /\ \E name \in EnvelopeEncKeys : ~IsUndefined(Prop(row.values[1], name))

\* The issues RestorePlanHashRowInput.parse raises.
RestorePlanHashRowInputIssues(row) ==
    (IF row.row_id = <<>> THEN {"row_id"} ELSE {})
    \cup (IF row.action \notin {"update", "insert", "delete", "skip"}
          THEN {"action"} ELSE {})
    \cup (IF row.values = <<>> THEN {}
          ELSE RestoreEncryptedValueEnvelopeIssues(row.values[1]))
    \cup (IF row.action # "skip" /\ ~HasEncryptedValues(row)
          THEN {"non-skip plan rows require encrypted value material"}
          ELSE {})

\* ids.every((id, index) => id === sorted[index]), sorted being
\* [...ids].sort((left, right) => left.localeCompare(right))
IsSortedByLocaleCompare(ids) ==
    LET sorted == StableSort(ids, [i \in 1..Len(ids) |->
                                     [j \in 1..Len(ids) |->
                                         LocaleCompare(ids[i], ids[j])]])
    IN  \A index \in 1..Len(ids) : ids[index] = sorted[index]

\* new Set(ids).size === ids.length
AreUnique(ids) == Cardinality({ids[i] : i \in 1..Len(ids)}) = Len(ids)

RowIds(p) == [i \in 1..Len(p.rows) |-> p.rows[i].row_id]
CandidateIds(p) ==
    [i \in 1..Len(p.media_candidates) |-> p.media_candidates[i].candidate_id]

\* The issues the refinement of RestorePlanHashInput raises on identifiers.
IdentifierIssues(p) ==
    (IF ~AreUnique(RowIds(p))
     THEN {"rows must have unique row_id values"} ELSE {})
    \cup (IF ~IsSortedByLocaleCompare(RowIds(p))
          THEN {"rows must be sorted by row_id for deterministic hash"}
          ELSE {})
    \cup (IF ~AreUnique(CandidateIds(p))
          THEN {"media_candidates must have unique candidate_id values"}
          ELSE {})
    \cup (IF ~IsSortedByLocaleCompare(CandidateIds(p))
          THEN {"media_candidates must be sorted by candidate_id for deterministic hash"}
          ELSE {})

\* The issues RestorePlanHashInput.parse raises.
RestorePlanHashInputIssues(p) ==
    (IF Len(p.rows) < 1 THEN {"rows: too_small"} ELSE {})
    \cup UNION {RestorePlanHashRowInputIssues(p.rows[i]) : i \in 1..Len(p.rows)}
    \cup {"candidate_id" : i \in {j \in 1..Len(p.media_candidates) :
             p.media_candidates[j].candidate_id = <<>>}}
    \cup IdentifierIssues(p)

\* The JavaScript value of a payload, as computeRestorePlanHash receives it.
RowValue(row) ==
    ObjectOf(<<<<"row_id", <<JsString(row.row_id)>>>>,
               <<"action", <<JsString(CodePoints(row.action))>>>>,
               <<"values", row.values>>>>)

CandidateValue(candidate) ==
    ObjectOf(<<<<"candidate_id", <<JsString(candidate.candidate_id)>>>>>>)

PlanInputValue(p) ==
    ObjectOf(<<<<"rows",
                 <<JsArray([i \in 1..Len(p.rows) |-> RowValue(p.rows[i])])>>>>,
               <<"media_candidates",
                 <<JsArray([i \in 1..Len(p.media_candidates) |->
                               CandidateValue(p.media_candidates[i])])>>>>>>)

\* Inputs of the validation.
\* 'a', 'B', U+00E9, U+0065 U+0301
RowIdValues == {<<97>>, <<66>>, <<233>>, <<101, 769>>}
CandidateIdValues == {<<97>>, <<66>>}

EncryptedPayloadValue ==
    ObjectOf(<<<<"alg", <<JsString(<<120>>)>>>>,
               <<"ciphertext", <<JsString(<<121>>)>>>>>>)

EnvelopeValues ==
    {ObjectOf(<<<<"diff_enc", enc>>, <<"diff_plain", dp>>,
                <<"after_image_plain", ap>>>>) :
        enc \in {<<>>, <<EncryptedPayloadValue>>},
        dp \in {<<>>, <<JsUndefined>>, <<JsNull>>, <<JsString(<<120>>)>>},
        ap \in {<<>>, <<JsNumber(1)>>}}

\* The envelope varies on the rows with row_id 'a'; the other rows are
\* updates that carry an encrypted diff.
PlanRows ==
    {r \in [row_id : RowIdValues,
            action : {"update", "skip"},
            values : {<<>>} \cup {<<e>> : e \in EnvelopeValues}] :
        /\ r.row_id # <<97>> =>
              (/\ r.action = "update"
               /\ r.values = <<ObjectOf(<<<<"diff_enc", <<EncryptedPayloadValue>>>>>>)>>)
        /\ r.action = "skip" =>
              r.values \in {<<>>, <<ObjectOf(<<<<"diff_plain", <<JsUndefined>>>>>>)>>}}

PlanCandidates == [candidate_id : CandidateIdValues]

PlanIdle == [op |-> "idle", issues |-> {}, canonical_json |-> <<>>]

PlanInit ==
    /\ payload = [rows |-> <<>>, media_candidates |-> <<>>]
    /\ verdict = PlanIdle
    /\ rows = <<>>
    /\ pitOut = <<>>
    /\ input = <<>>
    /\ jsonOut = <<>>
    /\ prevOut = <<>>
    /\ events = <<>>
    /\ auditOut = <<>>
    /\ legacyIn = <<>>
    /\ legacyOut = <<>>
    /\ calls = <<>>

\* A planner appends one more row to the input it builds.
PlanAddRow ==
    /\ Len(payload.rows) + Len(payload.media_candidates) < MaxPlanItems
    /\ \E r \in PlanRows :
          payload' = [payload EXCEPT !.rows = Append(payload.rows, r)]
    /\ verdict' = PlanIdle
    /\ UNCHANGED <<pitVars, jsonVars, auditVars, legacyVars, callVars>>

\* A planner appends one more media candidate to the input it builds.
PlanAddCandidate ==
    /\ Len(payload.rows) + Len(payload.media_candidates) < MaxPlanItems
    /\ \E c \in PlanCandidates :
          payload' = [payload EXCEPT
                         !.media_candidates = Append(payload.media_candidates, c)]
    /\ verdict' = PlanIdle
    /\ UNCHANGED <<pitVars, jsonVars, auditVars, legacyVars, callVars>>

\* A caller runs RestorePlanHashInput.safeParse on the input.
PlanValidate ==
    /\ verdict.op = "idle"
    /\ verdict' = [PlanIdle EXCEPT !.op = "validate",
                                   !.issues = RestorePlanHashInputIssues(payload)]
    /\ UNCHANGED <<payload, pitVars, jsonVars, auditVars, legacyVars, callVars>>

\* A caller runs computeRestorePlanHash on an input that was accepted.
PlanHash ==
    /\ verdict.op = "validate"
    /\ verdict.issues = {}
    /\ verdict' = [PlanIdle EXCEPT
                      !.op = "hash",
                      !.canonical_json =
                          ComputeRestorePlanHash(PlanInputValue(payload)).canonical_json]
    /\ UNCHANGED <<payload, pitVars, jsonVars, auditVars, legacyVars, callVars>>

PlanNext == PlanAddRow \/ PlanAddCandidate \/ PlanValidate \/ PlanHash

SpecPlan == PlanInit /\ [][PlanNext]_vars

(***************************************************************************)
(* Restore watermarks and their validation.  The times of a watermark are  *)
(* held as one field, measured_at, the offset as a JavaScript value.       *)
(***************************************************************************)
RestoreReasonCodes ==
    {"none", "queued_scope_lock", "blocked_unknown_source_mapping",
     "blocked_missing_capability", "blocked_unresolved_delete_candidates",
     "blocked_unresolved_media_candidates", "blocked_reference_conflict",
     "blocked_media_parent_missing", "blocked_freshness_stale",
     "blocked_freshness_unknown", "blocked_auth_control_plane_outage",
     "blocked_plan_hash_mismatch", "blocked_evidence_not_ready",
     "blocked_resume_precondition_mismatch",
     "blocked_resume_checkpoint_missing",
     "paused_token_refresh_grace_exhausted", "paused_entitlement_disabled",
     "paused_instance_disabled", "failed_media_parent_missing",
     "failed_media_hash_mismatch", "failed_media_retry_exhausted",
     "failed_evidence_report_hash_mismatch",
     "failed_evidence_artifact_hash_mismatch",
     "failed_evidence_signature_verification", "failed_schema_conflict",
     "failed_permission_conflict", "failed_internal_error"}

\* normalizeRestoreOffsetDecimalString(value) !== null, for a string of any
\* characters and for an integer number.
IsRestoreOffset(v) ==
    \/ v.t = "number" /\ v.n >= 0
    \/ v.t = "string" /\ v.s # <<>> /\ \A i \in 1..Len(v.s) : IsDigit(v.s[i])

\* The two tests of the refinement of RestoreWatermark.
FreshButNotExecutable(w) ==
    w.freshness = "fresh" /\ w.executability # "executable"

StaleButExecutableNever(w) == FALSE
StaleButExecutable(w) ==
    w.freshness # "fresh" /\ w.executability = "executable"

\* The issues RestoreWatermark.parse raises.
RestoreWatermarkIssues(w) ==
    (IF w.contract_version # "restore.contracts.v1"
     THEN {"contract_version"} ELSE {})
    \cup (IF ~NonEmptyString(w.tenant_id) THEN {"tenant_id"} ELSE {})
    \cup (IF w.partition < 0 THEN {"partition"} ELSE {})
    \cup (IF ~IsRestoreOffset(w.indexed_through_offset)
          THEN {"must be non-negative integer offset as decimal string"}
          ELSE {})
    \cup (IF ~IsIsoDateTimeUtc(w.measured_at) THEN {"measured_at"} ELSE {})
    \cup (IF w.freshness \notin {"fresh", "stale", "unknown"}
          THEN {"freshness"} ELSE {})
    \cup (IF w.executability \notin {"executable", "preview_only", "blocked"}
          THEN {"executability"} ELSE {})
    \cup (IF w.reason_code \notin RestoreReasonCodes
          THEN {"reason_code"} ELSE {})
    \cup (IF FreshButNotExecutable(w)
          THEN {"fresh watermark must be executable"} ELSE {})
    \cup (IF StaleButExecutable(w)
          THEN {"stale or unknown watermark cannot be executable"} ELSE {})

\* Inputs of the validation.
Watermarks ==
    [contract_version : {"restore.contracts.v1"},
     tenant_id : {"tenant-1", ""},
     partition : {-1, 0},
     indexed_through_offset :
         {JsString(<<52, 50>>), JsNumber(7), JsString(<<52, 120>>)},
     measured_at : {[hh |-> 12, mm |-> 0, ss |-> 0, frac |-> <<0>>]},
     freshness : {"fresh", "stale", "unknown", "expired"},
     executability : {"executable", "preview_only", "blocked"},
     reason_code : {"none", "blocked_freshness_stale", "stale"}]

FirstWatermark ==
    [contract_version |-> "restore.contracts.v1",
     tenant_id |-> "tenant-1",
     partition |-> 0,
     indexed_through_offset |-> JsString(<<52, 50>>),
     measured_at |-> [hh |-> 12, mm |-> 0, ss |-> 0, frac |-> <<0>>],
     freshness |-> "fresh",
     executability |-> "executable",
     reason_code |-> "none"]

WatermarkIdle == [op |-> "idle", issues |-> {}]

WatermarkInit ==
    /\ payload = FirstWatermark
    /\ verdict = WatermarkIdle
    /\ rows = <<>>
    /\ pitOut = <<>>
    /\ input = <<>>
    /\ jsonOut = <<>>
    /\ prevOut = <<>>
    /\ events = <<>>
    /\ auditOut = <<>>
    /\ legacyIn = <<>>
    /\ legacyOut = <<>>
    /\ calls = <<>>

\* The indexer measures another watermark.
WatermarkReceive ==
    /\ verdict.op = "validate"
    /\ payload' \in Watermarks
    /\ verdict' = WatermarkIdle
    /\ UNCHANGED <<pitVars, jsonVars, auditVars, legacyVars, callVars>>

\* A caller runs RestoreWatermark.safeParse on the watermark.
WatermarkValidate ==
    /\ verdict.op = "idle"
    /\ verdict' = [op |-> "validate", issues |-> RestoreWatermarkIssues(payload)]
    /\ UNCHANGED <<payload, pitVars, jsonVars, auditVars, legacyVars, callVars>>

WatermarkNext == WatermarkReceive \/ WatermarkValidate

SpecWatermark == WatermarkInit /\ [][WatermarkNext]_vars

(***************************************************************************)
(* Several callers that share their arguments.  The callers hold           *)
(* references to the same array of PIT tuples (rows), the same array of    *)
(* audit events (events) and the same value to serialize (input).  The     *)
(* functions are synchronous, so a call runs to its end before another     *)
(* caller's call starts; the calls of the callers interleave in any order. *)
(* The modules keep no variable of their own between calls.                *)
(***************************************************************************)
Callers == 1..MaxCallers

NoCall == [op |-> "idle", given |-> <<>>, result |-> <<>>]

\* The arguments as a caller finds them when its call starts.
Arguments == [rows |-> rows, events |-> events, input |-> input]

\* What a function returns for the given arguments, run on its own.
RunAlone(op, given) ==
    CASE op = "compare" -> ComparePitRowTuple(given.rows[1], given.rows[2])
      [] op = "select" -> SelectLatestPitRowTuple(given.rows)
      [] op = "stringify" -> CanonicalJsonStringify(given.input)
      [] op = "hash" -> ComputeRestorePlanHash(given.input)
      [] op = "sort" ->
            LET r == SortCrossServiceAuditEventsForReplay(<<given.events>>, 1)
            IN  r.heap[r.ref]

\* Inputs of the calls.
CallRows ==
    {t \in PitTuples :
        /\ t.time.frac = <<>>
        /\ t.event_id = <<97>>
        /\ t.sys_mod_count # <<2>>
        /\ t.sys_updated_on # <<12, 0, 1>>}
CallEvents ==
    {e \in AuditEvents :
        /\ e.occurred_at.frac = <<>>
        /\ e.service = <<97, 99, 112>>
        /\ e.event_id # <<101, 769>>}
CallInputs ==
    {JsNumber(2), JsFunction,
     JsObject(<<<<98>>, <<66>>>>, <<JsNull, JsUndefined>>)}

CallsInit ==
    /\ rows \in [1..2 -> CallRows]
    /\ events \in [1..2 -> CallEvents]
    /\ input \in CallInputs
    /\ calls = [c \in Callers |-> NoCall]
    /\ pitOut = <<>>
    /\ jsonOut = <<>>
    /\ prevOut = <<>>
    /\ auditOut = <<>>
    /\ legacyIn = <<>>
    /\ legacyOut = <<>>
    /\ payload = <<>>
    /\ verdict = <<>>

\* The record of a call that has returned.
CallRecord(op) ==
    [op |-> op, given |-> Arguments, result |-> RunAlone(op, Arguments)]

\* A caller runs comparePitRowTuple(rows[0], rows[1]).
CallCompare ==
    /\ \E c \in Callers : calls' = [calls EXCEPT ![c] = CallRecord("compare")]
    /\ UNCHANGED <<rows, events, input, pitOut, jsonOut, prevOut, auditOut,
                   legacyVars, schemaVars>>

\* A caller runs selectLatestPitRowTuple(rows).
CallSelect ==
    /\ \E c \in Callers : calls' = [calls EXCEPT ![c] = CallRecord("select")]
    /\ UNCHANGED <<rows, events, input, pitOut, jsonOut, prevOut, auditOut,
                   legacyVars, schemaVars>>

\* A caller runs canonicalJsonStringify(input).
CallStringify ==
    /\ \E c \in Callers : calls' = [calls EXCEPT ![c] = CallRecord("stringify")]
    /\ UNCHANGED <<rows, events, input, pitOut, jsonOut, prevOut, auditOut,
                   legacyVars, schemaVars>>

\* A caller runs computeRestorePlanHash(input).
CallHash ==
    /\ \E c \in Callers : calls' = [calls EXCEPT ![c] = CallRecord("hash")]
    /\ UNCHANGED <<rows, events, input, pitOut, jsonOut, prevOut, auditOut,
                   legacyVars, schemaVars>>

\* A caller runs sortCrossServiceAuditEventsForReplay(events); the array of
\* the callers is the only array that exists before the call.
CallSort ==
    \E c \in Callers :
        LET r == SortCrossServiceAuditEventsForReplay(<<events>>, 1)
        IN  /\ events' = r.heap[1]
            /\ calls' = [calls EXCEPT ![c] = [op |-> "sort", given |-> Arguments,
                                              result |-> r.heap[r.ref]]]
            /\ UNCHANGED <<rows, input, pitOut, jsonOut, prevOut, auditOut,
                           legacyVars, schemaVars>>

CallsNext == CallCompare \/ CallSelect \/ CallStringify \/ CallHash \/ CallSort

SpecCalls == CallsInit /\ [][CallsNext]_vars

(***************************************************************************)
(* Claims about the PIT comparator and selector, checked under SpecPit.    *)
(***************************************************************************)
Positions == 1..Len(rows)

\* The comparison of the rows at two positions, as the code computes it.
Cmp(i, j) == ComparePitRowTuple(rows[i], rows[j]).value

\* The orders in which the rows can arrive.
Arrivals ==
    {p \in [Positions -> Positions] : \A i, j \in Positions : p[i] = p[j] => i = j}

\* The positions of the rows that no row of the input beats.
Top == {i \in Positions : \A k \in Positions : Cmp(k, i) <= 0}

Earliest(S) == CHOOSE i \in S : \A j \in S : i <= j
Latest(S) == CHOOSE i \in S : \A j \in S : i >= j

DistinctEventIds ==
    \A i, j \in Positions : rows[i].event_id = rows[j].event_id => i = j

Selected == pitOut.op = "select" /\ ~pitOut.threw

\* C1: comparePitRowTuple is transitive over all PIT row tuples, with or
\* without sys_mod_count: compare(a,b) <= 0 and compare(b,c) <= 0 imply
\* compare(a,c) <= 0.
C1_CompareTransitive ==
    (pitOut.op = "compare"
        /\ \A i, j \in Positions : ~pitOut.matrix[i][j].threw) =>
        \A i, j, k \in Positions :
            (pitOut.matrix[i][j].value <= 0 /\ pitOut.matrix[j][k].value <= 0)
                => pitOut.matrix[i][k].value <= 0

\* C2: for tuples with pairwise distinct event_id, selectLatestPitRowTuple
\* returns the same winning tuple for every arrival order of the tuples.
C2_SelectOrderIndependent ==
    (Selected /\ DistinctEventIds) =>
        \A p \in Arrivals :
            LET permuted == [i \in Positions |-> rows[p[i]]]
                r == SelectLatestPitRowTuple(permuted)
            IN  ~r.threw /\ permuted[r.index] = rows[pitOut.index]

\* C3: the tuple selectLatestPitRowTuple returns is an element of the input
\* and no element of the input compares greater than it.
C3_SelectedIsMaximal ==
    Selected =>
        /\ pitOut.index \in Positions
        /\ \A x \in Positions : Cmp(x, pitOut.index) <= 0

\* Several rows compare as equal to one another and no row is greater.
TiedAtTop ==
    /\ Cardinality(Top) >= 2
    /\ \A i, j \in Top : Cmp(i, j) = 0

\* C4 as stated: among tuples that compare as equal, none of the input being
\* greater, selectLatestPitRowTuple returns the one that occurs latest.
C4_TieKeepsLatest ==
    (Selected /\ TiedAtTop) => pitOut.index = Latest(Top)

\* C4 amended: when several tuples compare as equal to one another and every
\* other tuple of the input compares strictly less than each of them,
\* selectLatestPitRowTuple returns the one that occurs earliest.
C4_TieKeepsEarliest ==
    (Selected /\ TiedAtTop
        /\ \A k \in Positions \ Top : \A s \in Top : Cmp(k, s) < 0)
    => pitOut.index = Earliest(Top)

\* C4 witness: a selection over three rows whose first row is beaten by two
\* later rows that tie with each other and are different tuples.
C4_Witness ==
    /\ Selected
    /\ Len(rows) = 3
    /\ Top = {2, 3}
    /\ Cmp(2, 3) = 0
    /\ Cmp(1, 2) < 0 /\ Cmp(1, 3) < 0
    /\ rows[2] # rows[3]
    /\ pitOut.index = 2

(***************************************************************************)
(* Claims about canonical JSON and the plan hash, checked under SpecJson.  *)
(***************************************************************************)
Stringified == jsonOut.op = "stringify"
Hashed == jsonOut.op = "hash"

\* The value is built only from null, booleans, numbers, strings, arrays
\* and plain maps, a map entry possibly being absent (undefined).
RECURSIVE Supported(_)
Supported(v) ==
    IF v.t \in {"null", "boolean", "number", "nan", "string"} THEN TRUE
    ELSE IF v.t = "array"
    THEN \A i \in 1..Len(v.kids) : Supported(v.kids[i])
    ELSE IF v.t = "object"
    THEN \A i \in 1..Len(v.kids) :
            v.kids[i].t = "undefined" \/ Supported(v.kids[i])
    ELSE FALSE

\* The positions of the entries of a map whose value is not absent.
Present(v) == {i \in 1..Len(v.kids) : v.kids[i].t # "undefined"}

RECURSIVE Reorderings(_)
\* The values that hold the same key/value pairs as v at every depth and
\* the same array contents in the same order, the keys having been inserted
\* in any order.
Reorderings(v) ==
    IF v.kids = <<>> THEN {v}
    ELSE LET n == Len(v.kids)
             all == UNION {Reorderings(v.kids[i]) : i \in 1..n}
             choices == {c \in [1..n -> all] :
                            \A i \in 1..n : c[i] \in Reorderings(v.kids[i])}
             orders == {p \in [1..n -> 1..n] :
                           /\ \A i, j \in 1..n : p[i] = p[j] => i = j
                           /\ v.t # "object" => \A i \in 1..n : p[i] = i}
         IN  {Val(v.t, v.n, v.s,
                  IF v.t = "object" THEN [i \in 1..n |-> v.keys[p[i]]] ELSE <<>>,
                  [i \in 1..n |-> c[p[i]]]) : p \in orders, c \in choices}

RECURSIVE SameContent(_, _)
\* Two values hold the same fields with the same values at every depth
\* and the same array elements in the same order.
SameContent(x, y) ==
    IF x.t # y.t THEN FALSE
    ELSE IF x.t = "array"
    THEN /\ Len(x.kids) = Len(y.kids)
         /\ \A i \in 1..Len(x.kids) : SameContent(x.kids[i], y.kids[i])
    ELSE IF x.t = "object"
    THEN /\ {x.keys[i] : i \in Present(x)} = {y.keys[j] : j \in Present(y)}
         /\ \A i \in Present(x), j \in Present(y) :
                x.keys[i] = y.keys[j] => SameContent(x.kids[i], y.kids[j])
    ELSE x = y

RECURSIVE WithoutAbsent(_)
\* The value with the absent entries of its maps left out, at every depth.
WithoutAbsent(v) ==
    IF v.t = "array"
    THEN JsArray([i \in 1..Len(v.kids) |-> WithoutAbsent(v.kids[i])])
    ELSE IF v.t = "object"
    THEN LET present(i) == i \in Present(v)
             idx == SelectSeq([i \in 1..Len(v.kids) |-> i], present)
         IN  JsObject([j \in 1..Len(idx) |-> v.keys[idx[j]]],
                      [j \in 1..Len(idx) |-> WithoutAbsent(v.kids[idx[j]])])
    ELSE v

RECURSIVE EntriesKept(_, _)
\* out, read back from the text, has at every depth exactly the keys of the
\* entries of v that are not absent, and null where v has an explicit null.
EntriesKept(v, out) ==
    IF v.t = "array"
    THEN /\ out.t = "array"
         /\ Len(out.kids) = Len(v.kids)
         /\ \A i \in 1..Len(v.kids) : EntriesKept(v.kids[i], out.kids[i])
    ELSE IF v.t = "object"
    THEN /\ out.t = "object"
         /\ {v.keys[i] : i \in Present(v)} = {out.keys[j] : j \in 1..Len(out.keys)}
         /\ \A i \in Present(v), j \in 1..Len(out.keys) :
                v.keys[i] = out.keys[j] =>
                    /\ v.kids[i].t = "null" => out.kids[j].t = "null"
                    /\ EntriesKept(v.kids[i], out.kids[j])
    ELSE TRUE

RECURSIVE KeysAscendOrdinal(_)
\* In a value read back from a text, the keys of every map appear in
\* ascending ordinal order.
KeysAscendOrdinal(v) ==
    /\ v.t = "object" =>
          \A i \in 1..(Len(v.keys) - 1) :
              OrdinalCompare(v.keys[i], v.keys[i + 1]) < 0
    /\ \A i \in 1..Len(v.kids) : KeysAscendOrdinal(v.kids[i])

\* C5: computeRestorePlanHash yields the same canonical_json and the same
\* plan_hash for two inputs that hold the same content, whatever the order
\* in which the keys of their maps were inserted.
C5_HashIgnoresInsertionOrder ==
    Hashed =>
        \A y \in Reorderings(input) :
            LET r == ComputeRestorePlanHash(y)
            IN  /\ r.threw = jsonOut.threw
                /\ r.canonical_json = jsonOut.canonical_json
                /\ r.plan_hash = jsonOut.plan_hash

\* C5 witness: a hash of a map nested in a map, the inner map holding two
\* present entries that sort in the other order than they were inserted.
C5_Witness ==
    /\ Hashed /\ ~jsonOut.threw
    /\ input.t = "object" /\ Len(input.kids) = 1
    /\ input.kids[1].t = "object"
    /\ input.kids[1].keys = <<<<66>>, <<98>>>>
    /\ Present(input.kids[1]) = {1, 2}
    /\ Cardinality(Reorderings(input)) = 2

\* C6: in the text canonicalJsonStringify returns, the entries of every map
\* appear in ascending ordinal order of their keys, also for keys that
\* differ in letter case and for keys that look like integers.
C6_KeysInOrdinalOrder ==
    (Stringified /\ ~jsonOut.threw) =>
        LET p == JsonParse(jsonOut.canonical_json)
        IN  p.ok /\ KeysAscendOrdinal(p.v)

\* C7: canonicalJsonStringify fails for every value that is not built only
\* from null, booleans, numbers, strings, arrays and plain maps, wherever
\* the value occurs.
C7_UnsupportedValueFails ==
    (Stringified /\ ~Supported(input)) => jsonOut.threw

\* C8: canonicalJsonStringify drops every map entry whose value is absent
\* and keeps every entry whose value is an explicit null, as null: a map
\* with an absent entry serializes as the same map without the entry.
C8_AbsentDroppedNullKept ==
    (Stringified /\ Supported(input)) =>
        /\ ~jsonOut.threw
        /\ jsonOut.canonical_json = CanonicalJsonStringify(WithoutAbsent(input)).text
        /\ LET p == JsonParse(jsonOut.canonical_json)
           IN  p.ok /\ EntriesKept(input, p.v)

\* C9: parsing the canonical_json of a hash and hashing the parsed value
\* reproduces the same canonical_json and the same plan_hash.
C9_RoundTripReproducesHash ==
    /\ jsonOut.op = "parse" => ~jsonOut.threw
    /\ (Hashed /\ prevOut.op = "hash") =>
          /\ ~jsonOut.threw
          /\ jsonOut.canonical_json = prevOut.canonical_json
          /\ jsonOut.plan_hash = prevOut.plan_hash

\* C9 witness: the second hash of a round trip whose text holds a map of
\* two entries and an escaped string.
C9_Witness ==
    /\ Hashed /\ prevOut.op = "hash"
    /\ input.t = "object" /\ Len(input.kids) = 2
    /\ input.kids[1] = JsString(<<34>>)
    /\ \E i \in 1..Len(prevOut.canonical_json) : prevOut.canonical_json[i] = 92

\* The names the fields of a validated plan-hash input can have: the
\* schemas are strict, so that no field is named __proto__.
FieldNames == KeyValues \ {ProtoName}

\* The value is one a validated plan-hash input is built from: null,
\* booleans, finite numbers, strings, arrays and maps of named fields.
RECURSIVE PlanValue(_)
PlanValue(v) ==
    IF v.t \in {"null", "boolean", "number", "string"} THEN TRUE
    ELSE IF v.t = "array"
    THEN \A i \in 1..Len(v.kids) : PlanValue(v.kids[i])
    ELSE IF v.t = "object"
    THEN \A i \in 1..Len(v.kids) :
            /\ v.keys[i] \in FieldNames
            /\ v.kids[i].t = "undefined" \/ PlanValue(v.kids[i])
    ELSE FALSE

\* The values an input is compared with: scalars, arrays of up to two
\* elements, maps of up to two entries, and each of these nested once.
RefScalars ==
    {JsNull, JsBoolean(TRUE), JsNumber(1), JsNumber(2), JsNumber(12),
     JsString(<<120>>), JsString(<<34>>)}
RefElements == {JsNull, JsNumber(1), JsNumber(2)}
RefEntries == RefElements \cup {JsUndefined}
RefArrays ==
    {JsArray(<<>>)} \cup {JsArray(<<a>>) : a \in RefElements}
        \cup {JsArray(<<a, b>>) : a, b \in RefElements}
RefObjects ==
    {JsObject(<<>>, <<>>)}
        \cup {JsObject(<<k>>, <<a>>) : k \in FieldNames, a \in RefEntries}
        \cup {JsObject(<<k[1], k[2]>>, <<a, b>>) :
                 k \in {kk \in FieldNames \X FieldNames : kk[1] # kk[2]},
                 a \in RefEntries, b \in RefEntries}
RefNested ==
    {JsArray(<<v>>) : v \in RefArrays \cup RefObjects}
        \cup {JsObject(<<NestKey>>, <<v>>) : v \in RefArrays \cup RefObjects}
RefValues == RefScalars \cup RefArrays \cup RefObjects \cup RefNested

\* What computeRestorePlanHash returns for each of them.
RefHashes == {<<y, ComputeRestorePlanHash(y)>> : y \in RefValues}

\* C10: two plan-hash inputs that differ in the value of a present field
\* at any depth, or in the order of the elements of an array, yield
\* different canonical_json and different plan_hash.
C10_HashTellsInputsApart ==
    (Hashed /\ PlanValue(input)) =>
        /\ ~jsonOut.threw
        /\ \A e \in RefHashes :
              (e[2].canonical_json = jsonOut.canonical_json
                  \/ e[2].plan_hash = jsonOut.plan_hash)
              => SameContent(input, e[1])

\* C10 witness: the hash of an array of two different elements, which is
\* compared with the hash of the array of the same elements swapped.
C10_Witness ==
    /\ Hashed /\ ~jsonOut.threw
    /\ PlanValue(input)
    /\ input.t = "array" /\ Len(input.kids) = 2
    /\ input.kids[1] # input.kids[2]
    /\ JsArray(<<input.kids[2], input.kids[1]>>) \in RefValues
    /\ \E v \in RefValues : v # input /\ SameContent(input, v) = FALSE
          /\ v.t = "array" /\ Len(v.kids) = 2

(***************************************************************************)
(* Claims about the audit replay order, checked under SpecAudit.           *)
(***************************************************************************)
AuditPositions == 1..Len(events)

\* The instant an occurred_at denotes, in milliseconds.
OccurredAtInstant(e) == AsIsoUtcMillis(e.occurred_at).ms

Compared == auditOut.op = "compare"
Validated == auditOut.op = "validate"
Sorted == auditOut.op = "sort"

\* The comparison of the events at two positions, as the code computes it.
ReplayCmp(i, j) == CompareCrossServiceAuditEventsForReplay(events[i], events[j])

\* The number of times an event occurs in a sequence.
Occurrences(seq, e) == Cardinality({i \in 1..Len(seq) : seq[i] = e})

\* A sequence of events is non-decreasing under the replay comparator.
NonDecreasing(seq) ==
    \A i, j \in 1..Len(seq) :
        i < j => CompareCrossServiceAuditEventsForReplay(seq[i], seq[j]) <= 0

\* The events have pairwise distinct (service, event_id).
DistinctIdentities ==
    \A i, j \in AuditPositions :
        (events[i].service = events[j].service
            /\ events[i].event_id = events[j].event_id) => i = j

\* C11: for events the schema accepts, the order the comparator derives
\* from occurred_at is the chronological one: an earlier instant compares
\* less, and for the same instant service and event_id alone decide.
C11_OccurredAtChronological ==
    Compared =>
        \A i, j \in AuditPositions :
            /\ OccurredAtInstant(events[i]) < OccurredAtInstant(events[j])
                  => auditOut.matrix[i][j] < 0
            /\ OccurredAtInstant(events[i]) = OccurredAtInstant(events[j])
                  => auditOut.matrix[i][j] =
                        ThenBy(LocaleCompare(events[i].service, events[j].service),
                               LocaleCompare(events[i].event_id, events[j].event_id))

\* C12: the comparator is the lexicographic order on (occurred_at, service,
\* event_id), each compared as a byte-wise string: the first component that
\* differs decides the sign and the result is 0 exactly when all three are
\* equal.
C12_LexicographicOrdinal ==
    Compared =>
        \A i, j \in AuditPositions :
            /\ auditOut.matrix[i][j] =
                  ThenBy(OrdinalCompare(IsoText(events[i].occurred_at),
                                        IsoText(events[j].occurred_at)),
                         ThenBy(OrdinalCompare(events[i].service, events[j].service),
                                OrdinalCompare(events[i].event_id,
                                               events[j].event_id)))
            /\ auditOut.matrix[i][j] = 0 <=> events[i] = events[j]

\* C13: the replay validation raises the 'sorted' issue, and so rejects the
\* batch, whenever any two events, adjacent or not, are out of order; a
\* batch it accepts is non-decreasing as a whole.
C13_ValidationRejectsUnsorted ==
    Validated =>
        /\ (\E i, j \in AuditPositions : i < j /\ ReplayCmp(i, j) > 0)
              => \E issue \in auditOut.issues : issue.message = "sorted"
        /\ auditOut.issues = {} => NonDecreasing(events)

\* C13 witness: a batch of three events whose first two are in order and
\* whose first and third are not, rejected with the 'sorted' issue.
C13_Witness ==
    /\ Validated
    /\ Len(events) = 3
    /\ ReplayCmp(1, 2) <= 0
    /\ ReplayCmp(1, 3) > 0
    /\ \E issue \in auditOut.issues : issue.message = "sorted"

\* C14: the replay validation raises the 'unique' issue exactly when two
\* events, at any two positions, share service and event_id; events that
\* share only their event_id are no duplicates.
C14_ValidationRejectsDuplicates ==
    Validated =>
        ((\E issue \in auditOut.issues : issue.message = "unique")
            <=> ~DistinctIdentities)

\* C14 witness: the first and the third event share service and event_id
\* and differ in occurred_at, the second shares only the event_id; the
\* issue is raised at the third event alone.
C14_Witness ==
    /\ Validated
    /\ Len(events) = 3
    /\ events[1].service = events[3].service
    /\ events[1].event_id = events[3].event_id
    /\ events[1].occurred_at # events[3].occurred_at
    /\ events[2].event_id = events[1].event_id
    /\ events[2].service # events[1].service
    /\ {issue.index : issue \in {x \in auditOut.issues : x.message = "unique"}} = {3}

\* C15: sortCrossServiceAuditEventsForReplay returns a new sequence that is
\* a permutation of its input and non-decreasing under the comparator, and
\* leaves its input unchanged.
C15_SortReturnsSortedCopy ==
    Sorted =>
        /\ auditOut.fresh
        /\ events = auditOut.given
        /\ Len(auditOut.result) = Len(auditOut.given)
        /\ \A e \in AuditEvents :
              Occurrences(auditOut.result, e) = Occurrences(auditOut.given, e)
        /\ NonDecreasing(auditOut.result)

\* C15 witness: a sort of three events, one of them occurring twice, that
\* arrived in another order than the replay order.
C15_Witness ==
    /\ Sorted
    /\ Len(auditOut.given) = 3
    /\ auditOut.given[1] = auditOut.given[3]
    /\ auditOut.given[2] # auditOut.given[1]
    /\ auditOut.result # auditOut.given
    /\ events = auditOut.given

\* C16: for events with pairwise distinct (service, event_id), the sort
\* returns the same sequence for every arrival order of the events.
C16_SortIgnoresArrivalOrder ==
    (Sorted /\ DistinctIdentities) =>
        \A p \in {q \in [AuditPositions -> AuditPositions] :
                     \A i, j \in AuditPositions : q[i] = q[j] => i = j} :
            LET permuted == [i \in AuditPositions |-> auditOut.given[p[i]]]
                r == SortCrossServiceAuditEventsForReplay(<<permuted>>, 1)
            IN  r.heap[r.ref] = auditOut.result

(***************************************************************************)
(* Claims about the steps of comparePitRowTuple and the failures of        *)
(* selectLatestPitRowTuple, checked under SpecPit.                         *)
(***************************************************************************)
PitCompared == pitOut.op = "compare"

\* Both rows carry a sys_updated_on that is a time, and the same one.
SameSysUpdatedOn(i, j) ==
    LET lu == AsServiceNowUtcMillis(rows[i].sys_updated_on)
        ru == AsServiceNowUtcMillis(rows[j].sys_updated_on)
    IN  lu.finite /\ ru.finite /\ lu.ms = ru.ms

\* The count step decides between the rows at two positions.
CountsDecide(i, j) ==
    /\ rows[i].sys_mod_count # <<>>
    /\ rows[j].sys_mod_count # <<>>
    /\ rows[i].sys_mod_count[1] # rows[j].sys_mod_count[1]

CompareTimes(i, j) ==
    CompareNumbers(AsIsoUtcMillis(rows[i].time).ms, AsIsoUtcMillis(rows[j].time).ms)

\* C17: for tuples with equal sys_updated_on, when both carry sys_mod_count
\* and the counts differ the result is the sign of the numeric comparison of
\* the counts, whatever __time and event_id are; when at least one omits
\* sys_mod_count the result is decided by __time as an instant and, for
\* equal instants, by event_id.
C17_CountStepOnlyWhenBothCarry ==
    PitCompared =>
        \A i, j \in Positions :
            SameSysUpdatedOn(i, j) =>
                /\ ~pitOut.matrix[i][j].threw
                /\ CountsDecide(i, j) =>
                      pitOut.matrix[i][j].value =
                          CompareNumbers(rows[i].sys_mod_count[1],
                                         rows[j].sys_mod_count[1])
                /\ (rows[i].sys_mod_count = <<>> \/ rows[j].sys_mod_count = <<>>) =>
                      pitOut.matrix[i][j].value =
                          ThenBy(CompareTimes(i, j),
                                 LocaleCompare(rows[i].event_id, rows[j].event_id))

\* C17 witness: three rows with equal sys_updated_on; the first two carry
\* counts whose order is opposite to that of their __time and the counts
\* win; the third omits the count and __time decides against the first.
C17_Witness ==
    /\ PitCompared
    /\ Len(rows) = 3
    /\ SameSysUpdatedOn(1, 2) /\ SameSysUpdatedOn(1, 3)
    /\ CountsDecide(1, 2)
    /\ CompareTimes(1, 2) = 1
    /\ pitOut.matrix[1][2].value = -1
    /\ rows[1].sys_mod_count # <<>> /\ rows[3].sys_mod_count = <<>>
    /\ CompareTimes(1, 3) = 1
    /\ pitOut.matrix[1][3].value = 1

\* C18: comparePitRowTuple never returns 0 for two tuples whose event_id
\* differ, and when sys_updated_on, the applicable count step and __time all
\* tie its sign is that of the byte-wise comparison of the event_id strings.
C18_EventIdStrictOrdinal ==
    PitCompared =>
        \A i, j \in Positions :
            ~pitOut.matrix[i][j].threw =>
                /\ rows[i].event_id # rows[j].event_id
                      => pitOut.matrix[i][j].value # 0
                /\ (SameSysUpdatedOn(i, j) /\ ~CountsDecide(i, j)
                        /\ CompareTimes(i, j) = 0)
                      => pitOut.matrix[i][j].value =
                            OrdinalCompare(rows[i].event_id, rows[j].event_id)

\* C19: selectLatestPitRowTuple fails exactly when its input is empty; on
\* every non-empty sequence of tuples the schema accepts it returns a tuple.
C19_SelectFailsOnlyOnEmpty ==
    pitOut.op = "select" => (pitOut.threw <=> Len(rows) = 0)

(***************************************************************************)
(* Claims about the conversion of legacy restore-job events, checked under *)
(* SpecLegacy.                                                             *)
(***************************************************************************)
Converted == legacyOut.op = "convert"
RestoreConverted == Converted /\ legacyIn.kind = "restore"
AuthConverted == Converted /\ legacyIn.kind = "auth"

\* The triple the table of the contract gives for a legacy event.
TableTriple(event) ==
    CASE event.event_type = "job_created" ->
            Triple("plan", "job_created", "accepted")
      [] event.event_type = "job_queued" ->
            Triple("execute", "queued_for_lock", "queued")
      [] event.event_type = "job_paused" ->
            Triple("resume", "paused", "paused")
      [] event.event_type = "job_completed" ->
            Triple("execute", "completed", "completed")
      [] event.event_type = "job_failed" ->
            Triple("execute", "failed", "failed")
      [] event.event_type = "job_cancelled" ->
            Triple("execute", "cancelled", "cancelled")
      [] event.event_type = "job_started" ->
            IF \E entry \in event.details :
                  /\ entry.key = "resumed_from_pause"
                  /\ entry.value.t = "boolean"
                  /\ entry.value.n = 1
            THEN Triple("resume", "resumed", "started")
            ELSE Triple("execute", "started", "started")

\* C20: fromLegacyRestoreJobAuditEvent maps the legacy event type to
\* (lifecycle, action, outcome) by the fixed table, job_started giving
\* (resume, resumed, started) exactly when details.resumed_from_pause is the
\* boolean true: for accepted inputs the mapping step yields the triple of
\* the table, and the event the function returns carries that triple.
C20_LifecycleTable ==
    RestoreConverted =>
        /\ (LegacyRestoreJobAuditEventAccepts(legacyIn.event)
                /\ LegacyRestoreAuditContextAccepts(legacyIn.context))
              => legacyOut.mapped = <<TableTriple(legacyIn.event)>>
        /\ ~legacyOut.threw =>
              /\ legacyOut.event[1].lifecycle = TableTriple(legacyIn.event).lifecycle
              /\ legacyOut.event[1].action = TableTriple(legacyIn.event).action
              /\ legacyOut.event[1].outcome = TableTriple(legacyIn.event).outcome

\* C20 witness: a job_started event whose resumed_from_pause detail is the
\* string 'true' was converted and the event returned has lifecycle execute.
C20_Witness ==
    /\ RestoreConverted
    /\ ~legacyOut.threw
    /\ legacyIn.event.event_type = "job_started"
    /\ DetailOf(legacyIn.event.details, "resumed_from_pause").t = "string"
    /\ legacyOut.event[1].lifecycle = "execute"
    /\ legacyOut.event[1].action = "started"

(***************************************************************************)
(* Claims about the conversion of legacy auth events and about the         *)
(* failures of both conversions, checked under SpecLegacy.                 *)
(***************************************************************************)
AuthReturned == AuthConverted /\ ~legacyOut.threw
RestoreReturned == RestoreConverted /\ ~legacyOut.threw

\* A legacy reason code is present and is not the sentinel.
Usable(code) == code # <<>> /\ code[1] # "none"

\* C21: fromLegacyAuthAuditEvent takes reason_code from deny_reason_code
\* when that is present and not 'none', otherwise from
\* in_flight_reason_code when that is present and not 'none', and otherwise
\* leaves it absent.
C21_ReasonCodePrecedence ==
    AuthReturned =>
        /\ Usable(legacyIn.event.deny_reason_code)
              => legacyOut.event[1].reason_code = legacyIn.event.deny_reason_code
        /\ (~Usable(legacyIn.event.deny_reason_code)
                /\ Usable(legacyIn.event.in_flight_reason_code))
              => legacyOut.event[1].reason_code
                    = legacyIn.event.in_flight_reason_code
        /\ (~Usable(legacyIn.event.deny_reason_code)
                /\ ~Usable(legacyIn.event.in_flight_reason_code))
              => legacyOut.event[1].reason_code = <<>>

\* C21 witness: both codes are present and usable and the deny code won;
\* the event was returned.
C21_Witness ==
    /\ AuthReturned
    /\ Usable(legacyIn.event.deny_reason_code)
    /\ Usable(legacyIn.event.in_flight_reason_code)
    /\ legacyOut.event[1].reason_code = legacyIn.event.deny_reason_code
    /\ legacyOut.event[1].reason_code # legacyIn.event.in_flight_reason_code

\* The outcome the suffix of a legacy auth event type stands for.
SuffixOutcome(eventType) ==
    LET text == CodePoints(eventType)
    IN  CASE EndsWith(text, CodePoints("_denied")) -> "denied"
          [] ~EndsWith(text, CodePoints("_denied"))
             /\ EndsWith(text, CodePoints("_started")) -> "started"
          [] ~EndsWith(text, CodePoints("_denied"))
             /\ ~EndsWith(text, CodePoints("_started"))
             /\ EndsWith(text, CodePoints("_completed")) -> "completed"
          [] OTHER -> "accepted"

\* C22: fromLegacyAuthAuditEvent derives outcome from the suffix of
\* event_type only (_denied, _started, _completed, otherwise accepted) and
\* the unified event has service 'acp', lifecycle 'auth' and the legacy
\* event_type as its action.
C22_OutcomeFromSuffix ==
    AuthReturned =>
        /\ legacyOut.event[1].outcome = SuffixOutcome(legacyIn.event.event_type)
        /\ legacyOut.event[1].service = "acp"
        /\ legacyOut.event[1].lifecycle = "auth"
        /\ legacyOut.event[1].action = legacyIn.event.event_type

\* C22 witness: an event type that holds '_denied' but does not end with it
\* was converted to outcome accepted.
C22_Witness ==
    /\ AuthReturned
    /\ legacyIn.event.event_type = "token_denied_retry"
    /\ legacyOut.event[1].outcome = "accepted"
    /\ legacyOut.event[1].action = "token_denied_retry"

\* C23: the actor type is 'user' whenever the legacy actor holds '@', else
\* 'service' when it starts with 'svc:' or 'service:', else 'system'; the
\* actor id is the legacy string, and the unified event has no actor exactly
\* when the legacy event has none.
C23_ActorTypePrecedence ==
    AuthReturned =>
        LET legacy == legacyIn.event.actor
            unified == legacyOut.event[1].actor
        IN  /\ unified = <<>> <=> legacy = <<>>
            /\ legacy # <<>> =>
                  /\ unified[1].id = legacy[1]
                  /\ unified[1].type =
                        IF \E i \in 1..Len(CodePoints(legacy[1])) :
                              CodePoints(legacy[1])[i] = 64
                        THEN "user"
                        ELSE IF StartsWith(CodePoints(legacy[1]), 1, CodePoints("svc:"))
                                \/ StartsWith(CodePoints(legacy[1]), 1,
                                              CodePoints("service:"))
                        THEN "service"
                        ELSE "system"

\* C23 witness: an actor that starts with 'svc:' and holds '@' was given
\* the type user.
C23_Witness ==
    /\ AuthReturned
    /\ legacyIn.event.actor = <<"svc:alice@example.com">>
    /\ legacyOut.event[1].actor = <<[type |-> "user", id |-> "svc:alice@example.com"]>>

\* C24: neither adapter emits the sentinel: the reason_code of a returned
\* event is never 'none'; a legacy reason code of 'none' gives an absent
\* reason_code and any other reason code is passed through unchanged.
C24_SentinelNeverEmitted ==
    (Converted /\ ~legacyOut.threw) =>
        /\ legacyOut.event[1].reason_code # <<"none">>
        /\ legacyIn.kind = "restore" =>
              legacyOut.event[1].reason_code =
                  IF legacyIn.event.reason_code = "none"
                  THEN <<>> ELSE <<legacyIn.event.reason_code>>
        /\ legacyIn.kind = "auth" =>
              /\ legacyOut.event[1].reason_code
                    \in {<<>>, legacyIn.event.deny_reason_code,
                         legacyIn.event.in_flight_reason_code}
              /\ (Usable(legacyIn.event.deny_reason_code)
                    \/ Usable(legacyIn.event.in_flight_reason_code))
                    => legacyOut.event[1].reason_code # <<>>

\* C24 witness: a legacy auth event whose deny code is 'none' and whose
\* in-flight code is another one was converted, and the in-flight code came
\* through.
C24_Witness ==
    /\ AuthReturned
    /\ legacyIn.event.deny_reason_code = <<"none">>
    /\ Usable(legacyIn.event.in_flight_reason_code)
    /\ legacyOut.event[1].reason_code = legacyIn.event.in_flight_reason_code

\* C29: fromLegacyRestoreJobAuditEvent returns a unified event for every
\* legacy event the LegacyRestoreJobAuditEvent schema accepts together with
\* every context the LegacyRestoreAuditContext schema accepts.
C29_RestoreAdapterTotal ==
    (RestoreConverted
        /\ LegacyRestoreJobAuditEventAccepts(legacyIn.event)
        /\ LegacyRestoreAuditContextAccepts(legacyIn.context))
    => ~legacyOut.threw

\* C30: fromLegacyAuthAuditEvent returns a unified event for every legacy
\* event the LegacyAuthAuditEvent schema accepts.
C30_AuthAdapterTotal ==
    (AuthConverted /\ LegacyAuthAuditEventAccepts(legacyIn.event))
    => ~legacyOut.threw

(***************************************************************************)
(* Claims about the validation of the plan hash input, checked under       *)
(* SpecPlan.                                                               *)
(***************************************************************************)
PlanValidated == verdict.op = "validate"
PlanHashed == verdict.op = "hash"

\* The identifiers are pairwise distinct and ascend in the order of their
\* code units.
AscendingDistinct(ids) ==
    \A i, j \in 1..Len(ids) : i < j => OrdinalCompare(ids[i], ids[j]) < 0

\* Nothing but the identifiers can make the validation reject the payload.
ValidButForIdentifiers ==
    RestorePlanHashInputIssues(payload) \ IdentifierIssues(payload) = {}

\* C25: as far as identifiers go, the RestorePlanHashInput validation accepts
\* an input exactly when the row_id values of rows are pairwise distinct and
\* in ascending lexical string order and so are the candidate_id values of
\* media_candidates.
C25_AcceptsExactlySortedUnique ==
    (PlanValidated /\ ValidButForIdentifiers) =>
        (verdict.issues = {}
            <=> (AscendingDistinct(RowIds(payload))
                    /\ AscendingDistinct(CandidateIds(payload))))

\* A row carries a defined plaintext field in its values envelope.
CarriesPlaintext(row) ==
    /\ row.values # <<>>
    /\ \E i \in 1..Len(row.values[1].keys) :
          /\ \E name \in EnvelopePlainKeys :
                row.values[1].keys[i] = CodePoints(name)
          /\ row.values[1].kids[i].t # "undefined"

\* The text of a property name as JSON.stringify writes it, with its colon.
KeyText(name) == <<34>> \o CodePoints(name) \o <<34, 58>>

\* C26: no input that RestorePlanHashInput accepts has a row whose values
\* envelope carries a defined diff_plain, before_image_plain or
\* after_image_plain, and the canonical_json computeRestorePlanHash writes
\* for an accepted input holds none of these keys.
C26_NoPlaintextPassesValidation ==
    /\ (PlanValidated /\ verdict.issues = {}) =>
          \A i \in 1..Len(payload.rows) : ~CarriesPlaintext(payload.rows[i])
    /\ PlanHashed =>
          \A name \in EnvelopePlainKeys :
              ~Includes(verdict.canonical_json, KeyText(name))

\* C26 witness: an accepted input whose row has an envelope with the key
\* diff_plain set to undefined was hashed, and the text holds the encrypted
\* diff.
C26_Witness ==
    /\ PlanHashed
    /\ Len(payload.rows) = 1
    /\ payload.rows[1].values # <<>>
    /\ \E i \in 1..Len(payload.rows[1].values[1].keys) :
          payload.rows[1].values[1].keys[i] = CodePoints("diff_plain")
    /\ Includes(verdict.canonical_json, KeyText("diff_enc"))

(***************************************************************************)
(* Claims about the validation of watermarks, checked under SpecWatermark. *)
(***************************************************************************)
WatermarkValidated == verdict.op = "validate"

\* Nothing but the pairing of freshness and executability can make the
\* validation reject the watermark.
ValidButForPairing ==
    RestoreWatermarkIssues(payload)
        \ {"fresh watermark must be executable",
           "stale or unknown watermark cannot be executable"} = {}

\* C27: every watermark the RestoreWatermark schema accepts is fresh exactly
\* when it is executable: fresh with preview_only or blocked is rejected,
\* stale or unknown with executable is rejected, and stale or unknown with
\* preview_only or blocked is accepted.
C27_FreshIffExecutable ==
    WatermarkValidated =>
        /\ verdict.issues = {} =>
              (payload.freshness = "fresh"
                  <=> payload.executability = "executable")
        /\ ValidButForPairing =>
              (verdict.issues = {}
                  <=> (payload.freshness = "fresh"
                          <=> payload.executability = "executable"))

\* C27 witness: a watermark that is unknown and executable, and valid in
\* everything else, was rejected.
C27_Witness ==
    /\ WatermarkValidated
    /\ ValidButForPairing
    /\ payload.freshness = "unknown"
    /\ payload.executability = "executable"
    /\ verdict.issues = {"stale or unknown watermark cannot be executable"}

====
